---- MODULE Spec2Model ----
(***************************************************************************)
(* State-machine model of the Sony IMX585 V4L2 sensor driver               *)
(* (src/imx585.c): the timing model (HMAX/VMAX bounds, framing limits),    *)
(* the control handler imx585_set_ctrl, format selection and the           *)
(* standby/streaming transitions.                                          *)
(*                                                                         *)
(* Every driver function is an operator that takes the call context `s`    *)
(* (the device structure s.d, the global mode table s.modes, the register  *)
(* writes issued so far s.log, and the registers s.fail whose writes the   *)
(* bus refuses during this call) and                                       *)
(* returns the context after the call, with s.ret the C return value.      *)
(* Array indices are those of the C source (0-based).                      *)
(***************************************************************************)
EXTENDS Integers, Sequences, FiniteSets, TLC

---------------------------------------------------------------------------
(* Program constants (src/imx585.c #defines)                               *)

IMX585_VMAX_MAX == 1048575
IMX585_VMAX_DEFAULT == 2250
IMX585_HMAX_MAX == 65535
IMX585_SHR_MIN == 8
IMX585_SHR_MIN_CLEARHDR == 10
IMX585_EXPOSURE_MIN == 2
IMX585_EXPOSURE_DEFAULT == 1000
IMX585_EXPOSURE_MAX == 49865
IMX585_BLKLEVEL_DEFAULT == 50
IMX585_ANA_GAIN_MIN == 0
IMX585_ANA_GAIN_MIN_HGC == 34
IMX585_ANA_GAIN_MAX_HDR == 80
IMX585_ANA_GAIN_MAX_NORMAL == 240
IMX585_ANA_GAIN_DEFAULT == 0
IMX585_PIXEL_RATE == 74250000
IMX585_MODE_STANDBY == 1
IMX585_MODE_STREAMING == 0

\* errno values returned by the driver and the control framework
EIO == 5
EBUSY == 16
EINVAL == 22
ERANGE == 34
EACCES == 13

\* widths of the C integer types the driver stores values in
U8 == 256
U16 == 65536
U24 == 16777216

---------------------------------------------------------------------------
(* Bounds of the model                                                     *)

\* Power references a device may hold (references leak when resume fails)
MaxUsage == 2

---------------------------------------------------------------------------
(* Static tables                                                           *)

LinkFreqIdx == 0..7

\* min HMAX for 4-lane 4K full-resolution mode, by link-frequency index
HMAX_table_4lane_4K ==
    [i \in LinkFreqIdx |-> <<1584, 1320, 1100, 792, 660, 550, 440, 396>>[i + 1]]

\* DATARATE_SEL register value by link-frequency index
link_freqs_reg_value ==
    [i \in LinkFreqIdx |-> <<7, 6, 5, 4, 3, 2, 1, 0>>[i + 1]]

ModeIdx == 0..1

\* supported_modes[] as initialised at module load
supported_modes_init ==
    [m \in ModeIdx |->
        IF m = 0
        THEN [width |-> 1928, height |-> 1090, hmax_div |-> 1,
              min_HMAX |-> 366, min_VMAX |-> IMX585_VMAX_DEFAULT,
              default_HMAX |-> 366, default_VMAX |-> IMX585_VMAX_DEFAULT]
        ELSE [width |-> 3856, height |-> 2180, hmax_div |-> 1,
              min_HMAX |-> 550, min_VMAX |-> IMX585_VMAX_DEFAULT,
              default_HMAX |-> 550, default_VMAX |-> IMX585_VMAX_DEFAULT]]

codes_normal == <<"SRGGB12", "SGRBG12", "SGBRG12", "SBGGR12">>

codes_clearhdr == <<"SRGGB16", "SGRBG16", "SGBRG16", "SBGGR16",
                    "SRGGB12", "SGRBG12", "SGBRG12", "SBGGR12">>

mono_codes == <<"Y16", "Y12">>

Codes16 == {"SRGGB16", "SGRBG16", "SGBRG16", "SBGGR16", "Y16"}
Codes12 == {"SRGGB12", "SGRBG12", "SGBRG12", "SBGGR12", "Y12"}

---------------------------------------------------------------------------
(* Arithmetic helpers                                                      *)

Clamp(v, lo, hi) == IF v < lo THEN lo ELSE IF v > hi THEN hi ELSE v

\* x with no bit cleared
KeepBit0(x) == x

\* x & ~1u
ClearBit0(x) == x - (x % 2)

Abs(x) == IF x < 0 THEN -x ELSE x

RECURSIVE GCD(_, _)
GCD(a, b) == IF b = 0 THEN a ELSE GCD(b, a % b)

\* floor(x * y / c) by binary long division on the digits of x, for
\* products that do not fit 32 bits (needs 2 * c + y < 2^31)
RECURSIVE MulDivQR(_, _, _)
MulDivQR(x, y, c) ==
    IF x = 0 THEN [q |-> 0, r |-> 0]
    ELSE LET h  == MulDivQR(x \div 2, y, c)
             r2 == 2 * h.r
             q1 == 2 * h.q + (IF r2 >= c THEN 1 ELSE 0)
             r1 == IF r2 >= c THEN r2 - c ELSE r2
             a  == IF x % 2 = 1 THEN y % c ELSE 0
             b  == IF x % 2 = 1 THEN y \div c ELSE 0
             r3 == r1 + a
         IN [q |-> q1 + b + (IF r3 >= c THEN 1 ELSE 0),
             r |-> IF r3 >= c THEN r3 - c ELSE r3]

\* floor(x * y / c) for x, y >= 0 < c: the 64-bit product followed by
\* do_div().  The common factor of y and c is cancelled first, which
\* leaves the quotient unchanged; the product is then taken directly when
\* it fits 32 bits and by long division otherwise.
MulDiv(x, y, c) ==
    LET g  == GCD(y, c)
        yr == y \div g
        cr == c \div g
    IN  IF yr = 0 THEN 0
        ELSE IF x <= 2147483647 \div yr THEN (x * yr) \div cr
        ELSE MulDivQR(x, yr, cr).q

---------------------------------------------------------------------------
(* Variables                                                               *)

VARIABLES
    supported_modes,   \* the global struct imx585_mode supported_modes[]
    dev,               \* struct imx585 of every device instance
    last,              \* the last operation: its inputs, return value, writes
    call               \* per instance: the entry point that is under way
                       \* without the device mutex, and what it has read

\* The operation name and control id of `last` come before the record, so
\* that two records are compared in full only when their inputs have the
\* same shape.
vars == <<supported_modes, dev, call, last.op, last.id, last>>

\* Device instances (i2c clients bound to the driver)
Instances == {1, 2}

---------------------------------------------------------------------------
(* Controls (struct v4l2_ctrl of the control handler)                      *)

\* Creation order in imx585_init_controls = the order of the handler's list,
\* which __v4l2_ctrl_handler_setup walks.
CtrlOrder ==
    << "PIXEL_RATE", "LINK_FREQ", "VBLANK", "HBLANK", "BRIGHTNESS",
       "EXPOSURE", "ANALOGUE_GAIN", "HFLIP", "VFLIP", "WIDE_DYNAMIC_RANGE",
       "HDR_DATASEL_TH", "HDR_DATASEL_BK", "HDR_GRAD_TH", "HDR_GRAD_COMP_L",
       "HDR_GRAD_COMP_H", "HDR_GAIN", "HGC_GAIN" >>

CtrlIds == {CtrlOrder[k] : k \in 1..Len(CtrlOrder)}

\* The HDR-only controls of the V4L2_CID_WIDE_DYNAMIC_RANGE handler
HdrCtrls == {"HDR_DATASEL_TH", "HDR_DATASEL_BK", "HDR_GRAD_TH",
             "HDR_GRAD_COMP_L", "HDR_GRAD_COMP_H", "HDR_GAIN"}

NewCtrl(type, min, max, def, flags) ==
    [type |-> type, minimum |-> min, maximum |-> max, default_value |-> def,
     cur |-> def, val |-> def, flags |-> flags]

\* The control set as imx585_init_controls creates it, before
\* v4l2_ctrl_activate and imx585_set_framing_limits run.
InitialCtrls ==
    [id \in CtrlIds |->
       CASE id = "PIXEL_RATE" ->
              NewCtrl("int", 65535, 65535, 65535, {"READ_ONLY"})
         [] id = "LINK_FREQ" -> NewCtrl("menu", 0, 0, 0, {"READ_ONLY"})
         [] id = "VBLANK" -> NewCtrl("int", 0, 1048575, 0, {})
         [] id = "HBLANK" -> NewCtrl("int", 0, 65535, 0, {})
         [] id = "BRIGHTNESS" ->
              NewCtrl("int", 0, 65535, IMX585_BLKLEVEL_DEFAULT, {})
         [] id = "EXPOSURE" ->
              NewCtrl("int", IMX585_EXPOSURE_MIN, IMX585_EXPOSURE_MAX,
                      IMX585_EXPOSURE_DEFAULT, {})
         [] id = "ANALOGUE_GAIN" ->
              NewCtrl("int", IMX585_ANA_GAIN_MIN, IMX585_ANA_GAIN_MAX_NORMAL,
                      IMX585_ANA_GAIN_DEFAULT, {})
         [] id = "HFLIP" -> NewCtrl("bool", 0, 1, 0, {})
         [] id = "VFLIP" -> NewCtrl("bool", 0, 1, 0, {})
         [] id = "WIDE_DYNAMIC_RANGE" -> NewCtrl("bool", 0, 1, 0, {})
         [] id = "HDR_DATASEL_TH" ->
              [NewCtrl("array", 0, 4095, 0, {}) EXCEPT
                  !.cur = <<512, 1024>>, !.val = <<512, 1024>>]
         [] id = "HDR_DATASEL_BK" -> NewCtrl("menu", 0, 8, 0, {})
         [] id = "HDR_GRAD_TH" ->
              [NewCtrl("array", 0, 131071, 0, {}) EXCEPT
                  !.cur = <<500, 11500>>, !.val = <<500, 11500>>]
         [] id = "HDR_GRAD_COMP_L" -> NewCtrl("menu", 0, 11, 2, {})
         [] id = "HDR_GRAD_COMP_H" -> NewCtrl("menu", 0, 11, 6, {})
         [] id = "HDR_GAIN" -> NewCtrl("menu", 0, 5, 2, {})
         [] id = "HGC_GAIN" -> NewCtrl("bool", 0, 1, 0, {})]

---------------------------------------------------------------------------
(* Register tables                                                         *)

\* imx585_common_regs[], in table order; the two runs of analog tuning
\* registers between and after the named registers are one entry each.
imx585_common_regs ==
    << <<"XMSTA", 1>>, <<"COMMON_REGS_A", 0>>, <<"DIG_CLP_VSTART", 4>>,
       <<"FDG_SEL0", 0>>, <<"XXS_DRV", 0>>, <<"EXP_GAIN", 0>>,
       <<"COMMON_REGS_B", 0>> >>

imx585_common_clearHDR_mode ==
    << <<"WDMODE", 16>>, <<"CLEARHDR_REGS", 0>>, <<"EXP_GAIN", 2>> >>

imx585_common_normal_mode ==
    << <<"WDMODE", 0>>, <<"NORMAL_REGS", 0>> >>

mode_1080_regs_12bit ==
    << <<"ADDMODE", 1>>, <<"ADBIT", 2>>, <<"MDBIT", 1>>,
       <<"DIG_CLP_VSTART", 2>> >>

mode_4k_regs_12bit ==
    << <<"ADDMODE", 0>>, <<"ADBIT", 2>>, <<"MDBIT", 1>>,
       <<"DIG_CLP_VSTART", 4>> >>

mode_reg_list(m) == IF m = 0 THEN mode_1080_regs_12bit ELSE mode_4k_regs_12bit

---------------------------------------------------------------------------
(* The device structure                                                    *)

\* devm_kzalloc(): every field zero, no controls yet.
DevZero ==
    [attached |-> FALSE,
     lane_count |-> 0, link_freq_idx |-> 0,
     mono |-> FALSE, clear_HDR |-> FALSE, sync_mode |-> 0,
     inck_sel_val |-> 0, oops |-> FALSE,
     mode |-> 0, fmt_code |-> "NONE", hgc |-> FALSE,
     HMAX |-> 0, VMAX |-> 0,
     streaming |-> FALSE, common_regs_written |-> FALSE,
     usage_count |-> 0, rpm_active |-> FALSE, sys_suspended |-> FALSE,
     mutex |-> "unlocked",
     ctrl |-> InitialCtrls]

---------------------------------------------------------------------------
(* Call context and the register channel                                   *)

Ctx(d, modes, fail) ==
    [d |-> d, modes |-> modes, log |-> <<>>, n |-> 0, fail |-> fail,
     ret |-> 0]

SetRet(s, r) == [s EXCEPT !.ret = r]

\* mutex_lock(&imx585->mutex) by the running call: a mutex that is already
\* locked is locked by this call itself (calls are one step each), and
\* the call then waits for itself for ever
mutex_lock(s) ==
    [s EXCEPT !.d.mutex = IF @ = "unlocked" THEN "locked" ELSE "deadlock"]

\* mutex_unlock(&imx585->mutex)
mutex_unlock(s) ==
    [s EXCEPT !.d.mutex = IF @ = "locked" THEN "unlocked" ELSE @]

\* One i2c_master_send(): the write is appended to the log of the
\* operation; it fails iff the bus refuses the register (s.fail).
i2c_master_send(s, reg, val) ==
    LET k  == s.n + 1
        ok == reg \notin s.fail
    IN  [s EXCEPT !.n = k,
                  !.log = Append(@, [reg |-> reg, val |-> val, ok |-> ok]),
                  !.ret = IF ok THEN 0 ELSE -EIO]

imx585_write_reg_1byte(s, reg, val) == i2c_master_send(s, reg, val % U8)

imx585_write_reg_2byte(s, reg, val) == i2c_master_send(s, reg, val % U16)

imx585_write_reg_3byte(s, reg, val) == i2c_master_send(s, reg, val % U24)

\* imx585_write_regs(): stops at the first failing write
RECURSIVE imx585_write_regs_from(_, _, _)
imx585_write_regs_from(s, list, k) ==
    IF k > Len(list) THEN SetRet(s, 0)
    ELSE LET s1 == imx585_write_reg_1byte(s, list[k][1], list[k][2])
         IN  IF s1.ret # 0 THEN s1
             ELSE imx585_write_regs_from(s1, list, k + 1)

imx585_write_regs(s, list) == imx585_write_regs_from(s, list, 1)

---------------------------------------------------------------------------
(* The V4L2 control framework, as far as the driver relies on it           *)

RECURSIVE imx585_set_ctrl(_, _)

\* validate_new(): integers and array elements are clamped into the range,
\* booleans normalised, menu indices outside the range refused.
v4l2_validate_new(c, v) ==
    CASE c.type = "int" ->
           [ok |-> TRUE, v |-> Clamp(v, c.minimum, c.maximum)]
      [] c.type = "bool" -> [ok |-> TRUE, v |-> IF v # 0 THEN 1 ELSE 0]
      [] c.type = "menu" ->
           [ok |-> v >= c.minimum /\ v <= c.maximum, v |-> v]
      [] c.type = "array" ->
           [ok |-> TRUE,
            v |-> [k \in DOMAIN v |-> Clamp(v[k], c.minimum, c.maximum)]]

\* set_ctrl() + try_or_set_cluster(): validate the new value, refuse a
\* grabbed control, skip the driver when nothing changes, call s_ctrl, and
\* make the new value current only when s_ctrl returned 0.
v4l2_set_ctrl(s, id, v) ==
    LET c == s.d.ctrl[id]
        new_to_cur(s2) ==
            IF s2.ret # 0 THEN s2
            ELSE [s2 EXCEPT !.d.ctrl[id].cur = s2.d.ctrl[id].val]
        try_or_set(vv) ==
            IF ~vv.ok THEN SetRet([s EXCEPT !.d.ctrl[id].val = v], -ERANGE)
            ELSE IF "GRABBED" \in c.flags
            THEN SetRet([s EXCEPT !.d.ctrl[id].val = vv.v], -EBUSY)
            ELSE IF vv.v = c.cur
            THEN SetRet([s EXCEPT !.d.ctrl[id].val = vv.v], 0)
            ELSE new_to_cur(imx585_set_ctrl(
                                [s EXCEPT !.d.ctrl[id].val = vv.v], id))
    IN  try_or_set(v4l2_validate_new(c, v))

\* __v4l2_ctrl_s_ctrl()
v4l2_ctrl_s_ctrl(s, id, v) == v4l2_set_ctrl(s, id, v)

\* __v4l2_ctrl_modify_range(): check_range() refuses a default outside
\* [min, max] and then changes nothing; otherwise the range is replaced and
\* the current value, when it falls outside, is set to the clamped value
\* through set_ctrl() (so through the driver's s_ctrl).
v4l2_ctrl_modify_range(s, id, min, max, def) ==
    LET c == s.d.ctrl[id]
    IN  IF min > max \/ def < min \/ def > max THEN SetRet(s, -ERANGE)
        ELSE LET s1 == [s EXCEPT !.d.ctrl[id].minimum = min,
                                 !.d.ctrl[id].maximum = max,
                                 !.d.ctrl[id].default_value = def,
                                 !.d.ctrl[id].val = c.cur]
                 nv == Clamp(c.cur, min, max)
             IN  IF nv # c.cur THEN v4l2_set_ctrl(s1, id, nv)
                 ELSE SetRet(s1, 0)

\* v4l2_ctrl_activate(): clears or sets V4L2_CTRL_FLAG_INACTIVE
v4l2_ctrl_activate(s, id, active) ==
    [s EXCEPT !.d.ctrl[id].flags =
        IF active THEN @ \ {"INACTIVE"} ELSE @ \cup {"INACTIVE"}]

\* __v4l2_ctrl_grab(): sets or clears V4L2_CTRL_FLAG_GRABBED
v4l2_ctrl_grab(s, id, grabbed) ==
    [s EXCEPT !.d.ctrl[id].flags =
        IF grabbed THEN @ \cup {"GRABBED"} ELSE @ \ {"GRABBED"}]

\* __v4l2_ctrl_handler_setup(): s_ctrl for every control that is not
\* read-only, in list order, new value = current value; stops at an error.
RECURSIVE v4l2_ctrl_handler_setup_from(_, _)
v4l2_ctrl_handler_setup_from(s, k) ==
    IF k > Len(CtrlOrder) THEN SetRet(s, 0)
    ELSE LET id == CtrlOrder[k]
             c  == s.d.ctrl[id]
         IN  IF "READ_ONLY" \in c.flags
             THEN v4l2_ctrl_handler_setup_from(s, k + 1)
             ELSE LET next(s1) ==
                          IF s1.ret # 0 THEN s1
                          ELSE v4l2_ctrl_handler_setup_from(s1, k + 1)
                  IN  next(imx585_set_ctrl(
                               [s EXCEPT !.d.ctrl[id].val = c.cur], id))

v4l2_ctrl_handler_setup(s) == v4l2_ctrl_handler_setup_from(s, 1)

\* v4l2_find_nearest_size() over the first `num` entries of the mode
\* table: the entry with the least |dw| + |dh|, the later one on a tie;
\* -1 is NULL (no table).
RECURSIVE find_nearest_from(_, _, _, _, _, _, _)
find_nearest_from(modes, num, i, width, height, best, min_error) ==
    IF i >= num THEN best
    ELSE LET error == Abs(modes[i].width - width)
                      + Abs(modes[i].height - height)
         IN  IF min_error >= 0 /\ error > min_error
             THEN find_nearest_from(modes, num, i + 1, width, height,
                                    best, min_error)
             ELSE IF error = 0 THEN i
             ELSE find_nearest_from(modes, num, i + 1, width, height,
                                    i, error)

v4l2_find_nearest_size(modes, num, width, height) ==
    IF num = 0 THEN -1
    ELSE find_nearest_from(modes, num, 0, width, height, -1, -1)

---------------------------------------------------------------------------
(* Runtime power management of the device                                  *)

\* A power-off that keeps the common-registers flag
imx585_power_off_keep_flag(s) == [s EXCEPT !.d.rpm_active = FALSE]

\* imx585_power_off(): supplies and clock are cut, and the common
\* registers must be written again.
imx585_power_off(s) ==
    [s EXCEPT !.d.rpm_active = FALSE,
              !.d.common_regs_written = FALSE]

\* pm_runtime_put(): drops one reference.  When it was the last one the
\* power-down is queued: it happens later, as the step RuntimeSuspend.
pm_runtime_put(s) == [s EXCEPT !.d.usage_count = @ - 1]

\* pm_runtime_get_if_in_use(): takes a reference only when the device is
\* active and already in use.
pm_in_use(d) == d.rpm_active /\ d.usage_count > 0

---------------------------------------------------------------------------
(* Driver helpers                                                          *)

BoolVal(b) == IF b THEN 1 ELSE 0

\* get_mode_table(): the number of modes offered for a media-bus code
\* (the list itself is always supported_modes; 0 stands for the NULL list)
get_mode_table(d, code) ==
    IF d.mono
    THEN IF (code = "Y16" /\ d.clear_HDR) \/ code = "Y12" THEN 2 ELSE 0
    ELSE IF code \in (Codes16 \cup Codes12) \ {"Y16", "Y12"} THEN 2 ELSE 0

\* Index (1-based) of code in a code table, Len + 1 when it is absent:
\* the C loop `for (i...) if (tbl[i] == code) break;`
RECURSIVE CodeIndexFrom(_, _, _)
CodeIndexFrom(tbl, code, i) ==
    IF i > Len(tbl) \/ tbl[i] = code THEN i
    ELSE CodeIndexFrom(tbl, code, i + 1)

\* imx585_get_format_code(): the table entry equal to code; when code is
\* not in the table the C code reads one element past the array, which is
\* reported here as "OUT_OF_BOUNDS".
imx585_get_format_code(d, code) ==
    LET tbl == IF d.mono THEN mono_codes
               ELSE IF d.clear_HDR THEN codes_clearhdr ELSE codes_normal
        i   == CodeIndexFrom(tbl, code, 1)
    IN  IF i > Len(tbl) THEN "OUT_OF_BOUNDS" ELSE tbl[i]

\* imx585_update_gain_limits() with the HCG flag ignored (minimum always 0)
imx585_update_gain_limits_no_hcg(s) ==
    LET max == IF s.d.clear_HDR THEN IMX585_ANA_GAIN_MAX_HDR
               ELSE IMX585_ANA_GAIN_MAX_NORMAL
        cur == s.d.ctrl["ANALOGUE_GAIN"].val
        reclamp(s1) ==
            IF cur > max
            THEN v4l2_ctrl_s_ctrl(s1, "ANALOGUE_GAIN", max)
            ELSE s1
    IN  reclamp(v4l2_ctrl_modify_range(s, "ANALOGUE_GAIN",
                                       IMX585_ANA_GAIN_MIN, max,
                                       Clamp(cur, IMX585_ANA_GAIN_MIN, max)))

\* imx585_update_gain_limits()
imx585_update_gain_limits(s) ==
    LET hcg_on    == s.d.hgc
        clear_hdr == s.d.clear_HDR
        min == IF hcg_on THEN IMX585_ANA_GAIN_MIN_HGC ELSE IMX585_ANA_GAIN_MIN
        max == IF clear_hdr THEN IMX585_ANA_GAIN_MAX_HDR
               ELSE IMX585_ANA_GAIN_MAX_NORMAL
        cur == s.d.ctrl["ANALOGUE_GAIN"].val
        reclamp(s1) ==
            IF cur < min \/ cur > max
            THEN v4l2_ctrl_s_ctrl(s1, "ANALOGUE_GAIN", Clamp(cur, min, max))
            ELSE s1
    IN  reclamp(v4l2_ctrl_modify_range(s, "ANALOGUE_GAIN", min, max,
                                       Clamp(cur, min, max)))

\* Framing limits whose vblank range ignores the HDR frame length
imx585_set_framing_limits_fixed_vblank(s) ==
    LET mode == s.modes[s.d.mode]
        s0 == [s EXCEPT !.d.VMAX = mode.default_VMAX,
                        !.d.HMAX = mode.default_HMAX % U16]
        exposure(s5) ==
            v4l2_ctrl_modify_range(s5, "EXPOSURE", IMX585_EXPOSURE_MIN,
                                   s5.d.VMAX - IMX585_SHR_MIN_CLEARHDR,
                                   IMX585_EXPOSURE_DEFAULT)
        vblank(s3) ==
            v4l2_ctrl_s_ctrl(
                v4l2_ctrl_modify_range(s3, "VBLANK",
                                       IMX585_VMAX_DEFAULT - mode.height,
                                       IMX585_VMAX_MAX - mode.height,
                                       mode.default_VMAX - mode.height),
                "VBLANK", mode.default_VMAX - mode.height)
        hblank(s1, max_hblank, default_hblank) ==
            v4l2_ctrl_s_ctrl(
                v4l2_ctrl_modify_range(s1, "HBLANK", 0, max_hblank,
                                       default_hblank),
                "HBLANK", default_hblank)
        limits(pixel_rate) ==
            exposure(vblank(hblank(
                v4l2_ctrl_modify_range(s0, "PIXEL_RATE", pixel_rate,
                                       pixel_rate, pixel_rate),
                MulDiv(IMX585_HMAX_MAX, pixel_rate, IMX585_PIXEL_RATE)
                    - mode.width,
                MulDiv(mode.default_HMAX, pixel_rate, IMX585_PIXEL_RATE)
                    - mode.width)))
    IN  limits(MulDiv(mode.width, IMX585_PIXEL_RATE, mode.min_HMAX))

\* Framing limits whose exposure maximum is the frame length itself, with
\* no margin for the shutter register
imx585_set_framing_limits_no_margin(s) ==
    LET mode == s.modes[s.d.mode]
        s0 == [s EXCEPT !.d.VMAX = mode.default_VMAX,
                        !.d.HMAX = mode.default_HMAX % U16]
        exposure(s5) ==
            v4l2_ctrl_modify_range(s5, "EXPOSURE", IMX585_EXPOSURE_MIN,
                                   s5.d.VMAX,
                                   IMX585_EXPOSURE_DEFAULT)
        vblank(s3) ==
            v4l2_ctrl_s_ctrl(
                v4l2_ctrl_modify_range(s3, "VBLANK",
                                       mode.min_VMAX - mode.height,
                                       IMX585_VMAX_MAX - mode.height,
                                       mode.default_VMAX - mode.height),
                "VBLANK", mode.default_VMAX - mode.height)
        hblank(s1, max_hblank, default_hblank) ==
            v4l2_ctrl_s_ctrl(
                v4l2_ctrl_modify_range(s1, "HBLANK", 0, max_hblank,
                                       default_hblank),
                "HBLANK", default_hblank)
        limits(pixel_rate) ==
            exposure(vblank(hblank(
                v4l2_ctrl_modify_range(s0, "PIXEL_RATE", pixel_rate,
                                       pixel_rate, pixel_rate),
                MulDiv(IMX585_HMAX_MAX, pixel_rate, IMX585_PIXEL_RATE)
                    - mode.width,
                MulDiv(mode.default_HMAX, pixel_rate, IMX585_PIXEL_RATE)
                    - mode.width)))
    IN  limits(MulDiv(mode.width, IMX585_PIXEL_RATE, mode.min_HMAX))

\* Framing limits whose exposure range follows the frame length the
\* device had before the call
imx585_set_framing_limits_stale_vmax(s) ==
    LET mode == s.modes[s.d.mode]
        s0 == [s EXCEPT !.d.VMAX = mode.default_VMAX,
                        !.d.HMAX = mode.default_HMAX % U16]
        exposure(s5) ==
            v4l2_ctrl_modify_range(s5, "EXPOSURE", IMX585_EXPOSURE_MIN,
                                   s.d.VMAX - IMX585_SHR_MIN_CLEARHDR,
                                   IMX585_EXPOSURE_DEFAULT)
        vblank(s3) ==
            v4l2_ctrl_s_ctrl(
                v4l2_ctrl_modify_range(s3, "VBLANK",
                                       mode.min_VMAX - mode.height,
                                       IMX585_VMAX_MAX - mode.height,
                                       mode.default_VMAX - mode.height),
                "VBLANK", mode.default_VMAX - mode.height)
        hblank(s1, max_hblank, default_hblank) ==
            v4l2_ctrl_s_ctrl(
                v4l2_ctrl_modify_range(s1, "HBLANK", 0, max_hblank,
                                       default_hblank),
                "HBLANK", default_hblank)
        limits(pixel_rate) ==
            exposure(vblank(hblank(
                v4l2_ctrl_modify_range(s0, "PIXEL_RATE", pixel_rate,
                                       pixel_rate, pixel_rate),
                MulDiv(IMX585_HMAX_MAX, pixel_rate, IMX585_PIXEL_RATE)
                    - mode.width,
                MulDiv(mode.default_HMAX, pixel_rate, IMX585_PIXEL_RATE)
                    - mode.width)))
    IN  limits(MulDiv(mode.width, IMX585_PIXEL_RATE, mode.min_HMAX))

\* imx585_set_framing_limits()
imx585_set_framing_limits(s) ==
    LET mode == s.modes[s.d.mode]
        s0 == [s EXCEPT !.d.VMAX = mode.default_VMAX,
                        !.d.HMAX = mode.default_HMAX % U16]
        exposure(s5) ==
            v4l2_ctrl_modify_range(s5, "EXPOSURE", IMX585_EXPOSURE_MIN,
                                   s5.d.VMAX - IMX585_SHR_MIN_CLEARHDR,
                                   IMX585_EXPOSURE_DEFAULT)
        vblank(s3) ==
            v4l2_ctrl_s_ctrl(
                v4l2_ctrl_modify_range(s3, "VBLANK",
                                       mode.min_VMAX - mode.height,
                                       IMX585_VMAX_MAX - mode.height,
                                       mode.default_VMAX - mode.height),
                "VBLANK", mode.default_VMAX - mode.height)
        hblank(s1, max_hblank, default_hblank) ==
            v4l2_ctrl_s_ctrl(
                v4l2_ctrl_modify_range(s1, "HBLANK", 0, max_hblank,
                                       default_hblank),
                "HBLANK", default_hblank)
        limits(pixel_rate) ==
            exposure(vblank(hblank(
                v4l2_ctrl_modify_range(s0, "PIXEL_RATE", pixel_rate,
                                       pixel_rate, pixel_rate),
                MulDiv(IMX585_HMAX_MAX, pixel_rate, IMX585_PIXEL_RATE)
                    - mode.width,
                MulDiv(mode.default_HMAX, pixel_rate, IMX585_PIXEL_RATE)
                    - mode.width)))
    IN  limits(MulDiv(mode.width, IMX585_PIXEL_RATE, mode.min_HMAX))

\* imx585_update_hmax() with the lane count ignored (lane_scale = 1)
imx585_update_hmax_no_lane_scale(s) ==
    [s EXCEPT !.modes =
        [i \in ModeIdx |->
            LET h == HMAX_table_4lane_4K[s.d.link_freq_idx]
                         \div s.modes[i].hmax_div
                v == IMX585_VMAX_DEFAULT * (IF s.d.clear_HDR THEN 2 ELSE 1)
            IN  [s.modes[i] EXCEPT !.min_HMAX = h, !.default_HMAX = h,
                                   !.min_VMAX = v, !.default_VMAX = v]]]

\* imx585_update_hmax(): rewrites the bounds of every entry of the global
\* mode table from the calling device's lane count, link frequency and
\* ClearHDR flag.
imx585_update_hmax(s) ==
    LET base_4lane == HMAX_table_4lane_4K[s.d.link_freq_idx]
        lane_scale == IF s.d.lane_count = 2 THEN 2 ELSE 1
        factor     == base_4lane * lane_scale
        hdr_factor == IF s.d.clear_HDR THEN 2 ELSE 1
    IN  [s EXCEPT !.modes =
            [i \in ModeIdx |->
                LET m == s.modes[i]
                    h == factor \div m.hmax_div
                    v == IMX585_VMAX_DEFAULT * hdr_factor
                IN  [m EXCEPT !.min_HMAX = h, !.default_HMAX = h,
                              !.min_VMAX = v, !.default_VMAX = v]]]

---------------------------------------------------------------------------
(* imx585_set_ctrl: the s_ctrl operation of every control                  *)

\* The WIDE_DYNAMIC_RANGE case without the (de)activation of the HCG
\* control
imx585_set_ctrl_wdr_keep_hcg(s) ==
    LET hdr == s.d.ctrl["WIDE_DYNAMIC_RANGE"].val # 0
        s1 == [s EXCEPT !.d.clear_HDR = hdr]
        s2 == v4l2_ctrl_activate(s1, "HDR_DATASEL_TH", hdr)
        s3 == v4l2_ctrl_activate(s2, "HDR_DATASEL_BK", hdr)
        s4 == v4l2_ctrl_activate(s3, "HDR_GRAD_TH", hdr)
        s5 == v4l2_ctrl_activate(s4, "HDR_GRAD_COMP_H", hdr)
        s6 == v4l2_ctrl_activate(s5, "HDR_GRAD_COMP_L", hdr)
        s7 == v4l2_ctrl_activate(s6, "HDR_GAIN", hdr)
        nearest(s9, num_modes) ==
            [s9 EXCEPT !.d.mode =
                v4l2_find_nearest_size(s9.modes, num_modes,
                                       s9.modes[s9.d.mode].width,
                                       s9.modes[s9.d.mode].height)]
        remode(s9) ==
            nearest(s9, get_mode_table(s9.d,
                            IF s9.d.mono
                            THEN imx585_get_format_code(s9.d, "Y12")
                            ELSE imx585_get_format_code(s9.d, "SRGGB12")))
    IN  imx585_set_framing_limits(
            imx585_update_hmax(remode(imx585_update_gain_limits(s7))))

\* First switch, case V4L2_CID_WIDE_DYNAMIC_RANGE with a changed value
imx585_set_ctrl_wdr(s) ==
    LET hdr == s.d.ctrl["WIDE_DYNAMIC_RANGE"].val # 0
        s1 == [s EXCEPT !.d.clear_HDR = hdr]
        s2 == v4l2_ctrl_activate(s1, "HDR_DATASEL_TH", hdr)
        s3 == v4l2_ctrl_activate(s2, "HDR_DATASEL_BK", hdr)
        s4 == v4l2_ctrl_activate(s3, "HDR_GRAD_TH", hdr)
        s5 == v4l2_ctrl_activate(s4, "HDR_GRAD_COMP_H", hdr)
        s6 == v4l2_ctrl_activate(s5, "HDR_GRAD_COMP_L", hdr)
        s7 == v4l2_ctrl_activate(s6, "HDR_GAIN", hdr)
        s8 == v4l2_ctrl_activate(s7, "HGC_GAIN", ~hdr)
        nearest(s9, num_modes) ==
            [s9 EXCEPT !.d.mode =
                v4l2_find_nearest_size(s9.modes, num_modes,
                                       s9.modes[s9.d.mode].width,
                                       s9.modes[s9.d.mode].height)]
        remode(s9) ==
            nearest(s9, get_mode_table(s9.d,
                            IF s9.d.mono
                            THEN imx585_get_format_code(s9.d, "Y12")
                            ELSE imx585_get_format_code(s9.d, "SRGGB12")))
    IN  imx585_set_framing_limits(
            imx585_update_hmax(remode(imx585_update_gain_limits(s8))))

\* Second switch: the register write(s) of one control; s.ret is the C
\* local `ret` at the end of the switch.  `mode` is imx585->mode as read
\* at function entry.
imx585_set_ctrl_apply(s, id, mode) ==
    LET val == s.d.ctrl[id].val
    IN
    CASE id = "EXPOSURE" ->
           \* u32 arithmetic: a negative difference stands for its value
           \* modulo 2^32, of which the 3-byte write keeps the low 24 bits
           LET shr == ClearBit0(s.d.VMAX - val)
           IN  imx585_write_reg_3byte(s, "SHR", shr)
      [] id = "HGC_GAIN" ->
           IF "INACTIVE" \in s.d.ctrl[id].flags THEN SetRet(s, 0)
           ELSE LET s1 == imx585_update_gain_limits(
                              [s EXCEPT !.d.hgc = (val # 0)])
                IN  imx585_write_reg_1byte(s1, "FDG_SEL0", val)
      [] id = "ANALOGUE_GAIN" ->
           imx585_write_reg_2byte(s, "ANALOG_GAIN", val)
      [] id = "VBLANK" ->
           LET minSHR == IF s.d.clear_HDR THEN IMX585_SHR_MIN_CLEARHDR
                         ELSE IMX585_SHR_MIN
               VMAX   == ClearBit0(s.modes[mode].height + val)
               current_exposure ==
                   Clamp(s.d.ctrl["EXPOSURE"].cur, IMX585_EXPOSURE_MIN,
                         VMAX - minSHR)
               write(s1) == imx585_write_reg_3byte(s1, "VMAX", s1.d.VMAX)
           IN  write(v4l2_ctrl_modify_range(
                         [s EXCEPT !.d.VMAX = VMAX], "EXPOSURE",
                         IMX585_EXPOSURE_MIN, VMAX - minSHR,
                         current_exposure))
      [] id = "HBLANK" ->
           LET m == s.modes[mode]
               pixel_rate == MulDiv(m.width, IMX585_PIXEL_RATE, m.min_HMAX)
               hmax == MulDiv(m.width + val, IMX585_PIXEL_RATE, pixel_rate)
           IN  imx585_write_reg_2byte([s EXCEPT !.d.HMAX = hmax % U16],
                                      "HMAX", hmax)
      [] id = "HFLIP" -> imx585_write_reg_1byte(s, "WINMODEH", val)
      [] id = "VFLIP" -> imx585_write_reg_1byte(s, "WINMODEV", val)
      [] id = "BRIGHTNESS" ->
           LET b16 == val % U16
               blacklevel == IF b16 > 4095 THEN 4095 ELSE b16
           IN  imx585_write_reg_1byte(s, "BLKLEVEL", blacklevel)
      [] id = "HDR_DATASEL_TH" ->
           imx585_write_reg_2byte(
               imx585_write_reg_2byte(s, "EXP_TH_H", val[1]),
               "EXP_TH_L", val[2])
      [] id = "HDR_DATASEL_BK" -> imx585_write_reg_1byte(s, "EXP_BK", val)
      [] id = "HDR_GRAD_TH" ->
           imx585_write_reg_3byte(
               imx585_write_reg_3byte(s, "CCMP1_EXP", val[1]),
               "CCMP2_EXP", val[2])
      [] id = "HDR_GRAD_COMP_L" ->
           imx585_write_reg_1byte(s, "ACMP1_EXP", val)
      [] id = "HDR_GRAD_COMP_H" ->
           imx585_write_reg_1byte(s, "ACMP2_EXP", val)
      [] id = "HDR_GAIN" -> imx585_write_reg_1byte(s, "EXP_GAIN", val)
      [] OTHER -> SetRet(s, 0)

\* imx585_set_ctrl() without the pm_runtime_get_if_in_use() early return
imx585_set_ctrl_no_pm_check(s, id) ==
    LET mode == s.d.mode
        put(s2) == SetRet(pm_runtime_put(s2), s2.ret)
        registers(s1) ==
            put(imx585_set_ctrl_apply(
                    [s1 EXCEPT !.d.usage_count = @ + 1], id, mode))
    IN  registers(IF id = "WIDE_DYNAMIC_RANGE"
                     /\ BoolVal(s.d.clear_HDR) # s.d.ctrl[id].val
                  THEN imx585_set_ctrl_wdr(s) ELSE s)

imx585_set_ctrl(s, id) ==
    LET mode == s.d.mode
        put(s2) == SetRet(pm_runtime_put(s2), s2.ret)
        registers(s1) ==
            IF ~pm_in_use(s1.d) THEN SetRet(s1, 0)
            ELSE put(imx585_set_ctrl_apply(
                         [s1 EXCEPT !.d.usage_count = @ + 1], id, mode))
    IN  registers(IF id = "WIDE_DYNAMIC_RANGE"
                     /\ BoolVal(s.d.clear_HDR) # s.d.ctrl[id].val
                  THEN imx585_set_ctrl_wdr(s) ELSE s)

---------------------------------------------------------------------------
(* Streaming                                                               *)

\* A start sequence that selects streaming before it applies the controls
imx585_start_streaming_tail_select_first(s) ==
    LET start(s2) ==
            IF s2.ret # 0 THEN s2
            ELSE v4l2_ctrl_handler_setup(
                     IF s2.d.sync_mode <= 1
                     THEN imx585_write_reg_1byte(s2, "XMSTA", 0)
                     ELSE s2)
    IN  start(imx585_write_reg_1byte(
                  imx585_write_reg_1byte(s, "DIGITAL_CLAMP", 0),
                  "MODE_SELECT", IMX585_MODE_STREAMING))

\* Second half of imx585_start_streaming(), from "Disable digital clamp"
imx585_start_streaming_tail(s) ==
    LET start(s2) ==
            IF s2.ret # 0 THEN s2
            ELSE imx585_write_reg_1byte(
                     IF s2.d.sync_mode <= 1
                     THEN imx585_write_reg_1byte(s2, "XMSTA", 0)
                     ELSE s2,
                     "MODE_SELECT", IMX585_MODE_STREAMING)
    IN  start(v4l2_ctrl_handler_setup(
                  imx585_write_reg_1byte(s, "DIGITAL_CLAMP", 0)))

\* imx585_start_streaming() after the common registers: mode registers,
\* then the ClearHDR or the normal block
imx585_start_streaming_mode(s) ==
    LET bits(s2) ==
            IF ~s2.d.clear_HDR THEN s2
            ELSE IF s2.d.fmt_code \in Codes16
            THEN imx585_write_reg_1byte(
                     imx585_write_reg_1byte(s2, "CCMP_EN", 0), "MDBIT", 3)
            ELSE IF s2.d.fmt_code \in Codes12
            THEN imx585_write_reg_1byte(s2, "CCMP_EN", 1)
            ELSE s2
        controls(s2) ==
            IF s2.ret # 0 THEN s2 ELSE imx585_start_streaming_tail(bits(s2))
        hdr(s1) ==
            IF s1.ret # 0 THEN s1
            ELSE controls(imx585_write_regs(s1,
                              IF s1.d.clear_HDR
                              THEN imx585_common_clearHDR_mode
                              ELSE imx585_common_normal_mode))
    IN  hdr(imx585_write_regs(s, mode_reg_list(s.d.mode)))

\* The writes that follow the common register table, none of them checked
imx585_start_streaming_setup(s) ==
    LET s1 == imx585_write_reg_1byte(s, "INCK_SEL", s.d.inck_sel_val)
        s2 == imx585_write_reg_2byte(s1, "BLKLEVEL", IMX585_BLKLEVEL_DEFAULT)
        s3 == imx585_write_reg_1byte(s2, "DATARATE_SEL",
                                     link_freqs_reg_value[s.d.link_freq_idx])
        s4 == imx585_write_reg_1byte(s3, "LANEMODE",
                                     IF s.d.lane_count = 2 THEN 1 ELSE 3)
        s5 == imx585_write_reg_1byte(s4, "BIN_MODE", BoolVal(s.d.mono))
        s6 == IF s.d.sync_mode = 1
              THEN imx585_write_reg_1byte(
                       imx585_write_reg_1byte(
                           imx585_write_reg_1byte(s5, "EXTMODE", 1),
                           "XXS_DRV", 3),
                       "XXS_OUTSEL", 8)
              ELSE IF s.d.sync_mode = 0
              THEN imx585_write_reg_1byte(
                       imx585_write_reg_1byte(
                           imx585_write_reg_1byte(s5, "EXTMODE", 0),
                           "XXS_DRV", 0),
                       "XXS_OUTSEL", 10)
              ELSE imx585_write_reg_1byte(
                       imx585_write_reg_1byte(s5, "XXS_DRV", 15),
                       "XXS_OUTSEL", 0)
    IN  [s6 EXCEPT !.d.common_regs_written = TRUE]

imx585_start_streaming(s) ==
    LET mode(s1) ==
            IF s1.ret # 0 THEN s1
            ELSE imx585_start_streaming_mode(
                     IF ~s.d.common_regs_written
                     THEN imx585_start_streaming_setup(s1) ELSE s1)
    IN  mode(IF ~s.d.common_regs_written
             THEN imx585_write_regs(s, imx585_common_regs)
             ELSE SetRet(s, 0))

\* imx585_stop_streaming(): the result of the write is only logged
imx585_stop_streaming(s) ==
    imx585_write_reg_1byte(s, "MODE_SELECT", IMX585_MODE_STANDBY)

\* pm_runtime_get_sync() (resume never fails here: regulators and clock
\* are taken to work): takes a reference and powers the sensor up.
pm_runtime_get_sync(s) ==
    [s EXCEPT !.d.usage_count = @ + 1, !.d.rpm_active = TRUE]

imx585_set_stream_grab(s, enable) ==
    v4l2_ctrl_grab(
        v4l2_ctrl_grab(
            v4l2_ctrl_grab([s EXCEPT !.d.streaming = enable],
                           "VFLIP", enable),
            "HFLIP", enable),
        "WIDE_DYNAMIC_RANGE", enable)

\* A set_stream that gives up when the standby write is refused
imx585_set_stream_checked_stop(s, enable) ==
    LET locked(s0) ==
            IF s0.d.streaming = enable THEN SetRet(s0, 0)
            ELSE IF enable
            THEN LET started(s1) ==
                         IF s1.ret # 0
                         THEN SetRet(pm_runtime_put(s1), s1.ret)
                         ELSE SetRet(imx585_set_stream_grab(s1, TRUE), 0)
                 IN  started(imx585_start_streaming(
                                 pm_runtime_get_sync(s0)))
            ELSE LET stopped(s1) ==
                         IF s1.ret # 0 THEN s1
                         ELSE SetRet(imx585_set_stream_grab(
                                         pm_runtime_put(s1), FALSE), 0)
                 IN  stopped(imx585_stop_streaming(s0))
    IN  mutex_unlock(locked(mutex_lock(s)))

\* imx585_set_stream(): every path ends with one mutex_unlock()
imx585_set_stream(s, enable) ==
    LET locked(s0) ==
            IF s0.d.streaming = enable THEN mutex_unlock(SetRet(s0, 0))
            ELSE IF enable
            THEN LET started(s1) ==
                         IF s1.ret # 0
                         THEN mutex_unlock(
                                  SetRet(pm_runtime_put(s1), s1.ret))
                         ELSE mutex_unlock(
                                  SetRet(imx585_set_stream_grab(s1, TRUE),
                                         0))
                 IN  started(imx585_start_streaming(
                                 pm_runtime_get_sync(s0)))
            ELSE mutex_unlock(
                     SetRet(imx585_set_stream_grab(
                                pm_runtime_put(imx585_stop_streaming(s0)),
                                FALSE),
                            0))
    IN  locked(mutex_lock(s))

\* imx585_suspend()
imx585_suspend(s) ==
    SetRet(IF s.d.streaming THEN imx585_stop_streaming(s) ELSE s, 0)

\* imx585_resume()
imx585_resume(s) ==
    IF s.d.streaming
    THEN LET started(s1) ==
                 IF s1.ret # 0
                 THEN SetRet([imx585_stop_streaming(s1) EXCEPT
                                 !.d.streaming = FALSE], s1.ret)
                 ELSE SetRet(s1, 0)
         IN  started(imx585_start_streaming(s))
    ELSE SetRet(s, 0)

---------------------------------------------------------------------------
(* Pad format                                                              *)

\* Outcomes of the read one element past a code table in
\* imx585_get_format_code(): any media-bus code of the driver, or a value
\* that is none of them.
AllCodes == Codes16 \cup Codes12

OobOutcomes == AllCodes \cup {"INVALID"}

\* Pads of the sub-device
IMAGE_PAD == 0
METADATA_PAD == 1
NUM_PADS == 2

\* imx585_set_pad_format() without the call of
\* imx585_set_framing_limits()
imx585_set_pad_format_keep_limits(s, fmt, oob) ==
    IF fmt.pad >= NUM_PADS THEN SetRet(s, -EINVAL)
    ELSE
    LET s0   == mutex_lock(s)
        c0   == imx585_get_format_code(s0.d, fmt.code)
        code == IF c0 = "OUT_OF_BOUNDS" THEN oob ELSE c0
        num_modes == get_mode_table(s0.d, code)
        mode == v4l2_find_nearest_size(s0.modes, num_modes, fmt.width,
                                       fmt.height)
    IN  IF fmt.pad # IMAGE_PAD THEN mutex_unlock(SetRet(s0, 0))
        ELSE IF mode = -1 THEN SetRet([s0 EXCEPT !.d.oops = TRUE], -EIO)
        ELSE IF fmt.which = "TRY" THEN mutex_unlock(SetRet(s0, 0))
        ELSE mutex_unlock(
                 SetRet([s0 EXCEPT !.d.mode = mode, !.d.fmt_code = code],
                        0))

\* imx585_set_pad_format().  fmt.pad is the pad, fmt.which is "ACTIVE" or
\* "TRY"; `oob` is the value the out-of-bounds read yields when it
\* happens.  A NULL mode list makes v4l2_find_nearest_size() return NULL,
\* which imx585_update_image_pad_format() dereferences: the kernel oopses
\* with the mutex held (d.oops).  The TRY format lives in the caller's
\* sub-device state and is not part of the device.
imx585_set_pad_format(s, fmt, oob) ==
    IF fmt.pad >= NUM_PADS THEN SetRet(s, -EINVAL)
    ELSE
    LET s0   == mutex_lock(s)
        c0   == imx585_get_format_code(s0.d, fmt.code)
        code == IF c0 = "OUT_OF_BOUNDS" THEN oob ELSE c0
        num_modes == get_mode_table(s0.d, code)
        mode == v4l2_find_nearest_size(s0.modes, num_modes, fmt.width,
                                       fmt.height)
    IN  IF fmt.pad # IMAGE_PAD THEN mutex_unlock(SetRet(s0, 0))
        ELSE IF mode = -1 THEN SetRet([s0 EXCEPT !.d.oops = TRUE], -EIO)
        ELSE IF fmt.which = "TRY" THEN mutex_unlock(SetRet(s0, 0))
        ELSE IF s0.d.mode # mode \/ s0.d.fmt_code # code
        THEN mutex_unlock(
                 SetRet(imx585_set_framing_limits(
                            [s0 EXCEPT !.d.mode = mode,
                                       !.d.fmt_code = code]), 0))
        ELSE mutex_unlock(SetRet(s0, 0))

\* imx585_get_pad_format(): the code it reports.  fmt.code is the code of
\* the try format held in the caller's sub-device state.
imx585_get_pad_format_code(d, fmt, oob) ==
    LET report(c) == IF c = "OUT_OF_BOUNDS" THEN oob ELSE c
    IN  IF fmt.pad >= NUM_PADS THEN ""
        ELSE IF fmt.pad # IMAGE_PAD THEN "SENSOR_DATA"
        ELSE IF fmt.which = "TRY"
        THEN report(imx585_get_format_code(d, fmt.code))
        ELSE report(imx585_get_format_code(d, d.fmt_code))

\* imx585_get_pad_format()
imx585_get_pad_format(s, fmt) ==
    IF fmt.pad >= NUM_PADS THEN SetRet(s, -EINVAL)
    ELSE mutex_unlock(SetRet(mutex_lock(s), 0))

\* imx585_get_selection()
imx585_get_selection(s, target) ==
    IF target = "CROP" THEN mutex_unlock(SetRet(mutex_lock(s), 0))
    ELSE IF target \in {"NATIVE_SIZE", "CROP_DEFAULT", "CROP_BOUNDS"}
    THEN SetRet(s, 0)
    ELSE SetRet(s, -EINVAL)

---------------------------------------------------------------------------
(* Bus-code enumeration                                                    *)

\* imx585_enum_mbus_code() up to the table lookup.  done: the call returns
\* here with ret and code; otherwise code is tbl[index * 4], which the call
\* hands to imx585_get_format_code() next.
imx585_enum_mbus_code_lookup(d, pad, index) ==
    LET fail == [done |-> TRUE, ret |-> -EINVAL, code |-> ""]
    IN  IF pad >= NUM_PADS THEN fail
        ELSE IF pad # IMAGE_PAD
        THEN IF index > 0 THEN fail
             ELSE [done |-> TRUE, ret |-> 0, code |-> "SENSOR_DATA"]
        ELSE IF d.mono
        THEN IF d.clear_HDR
             THEN IF index > 1 THEN fail
                  ELSE [done |-> TRUE, ret |-> 0, code |-> mono_codes[index + 1]]
             ELSE IF index # 0 THEN fail
                  ELSE [done |-> TRUE, ret |-> 0, code |-> "Y12"]
        ELSE LET tbl == IF d.clear_HDR THEN codes_clearhdr ELSE codes_normal
             IN  IF index >= Len(tbl) \div 4 THEN fail
                 ELSE [done |-> FALSE, ret |-> 0, code |-> tbl[index * 4 + 1]]

\* The rest of imx585_enum_mbus_code(): the code the call reports for the
\* table entry it picked, read from the device as it is now
imx585_enum_mbus_code_report(d, code, oob) ==
    LET c == imx585_get_format_code(d, code)
    IN  IF c = "OUT_OF_BOUNDS" THEN oob ELSE c

---------------------------------------------------------------------------
(* Probe and remove                                                        *)

\* INCK_SEL value by index into imx585_inck_table
imx585_inck_table == [k \in 0..4 |-> k]

\* imx585_init_controls()
imx585_init_controls(s) ==
    LET hdr == s.d.clear_HDR
        s1 == [s EXCEPT !.d.ctrl =
                 [id \in CtrlIds |->
                    IF (id \in HdrCtrls /\ ~hdr)
                       \/ (id = "HGC_GAIN" /\ hdr)
                    THEN [InitialCtrls[id] EXCEPT
                             !.flags = @ \cup {"INACTIVE"}]
                    ELSE InitialCtrls[id]]]
    IN  SetRet(imx585_set_framing_limits(s1), 0)

\* imx585_check_hwcfg(): cfg.lanes is the number of data lanes of the
\* endpoint, cfg.link_freq the index of its first link frequency in
\* link_freqs[] (-1: not in the table).
imx585_check_hwcfg(s, cfg) ==
    IF cfg.lanes # 2 /\ cfg.lanes # 4 THEN SetRet(s, -EINVAL)
    ELSE LET s1 == [s EXCEPT !.d.lane_count = cfg.lanes]
         IN  IF cfg.link_freq \notin LinkFreqIdx THEN SetRet(s1, -EINVAL)
             ELSE SetRet(imx585_update_hmax(
                           [s1 EXCEPT !.d.link_freq_idx = cfg.link_freq]), 0)

\* imx585_probe(): cfg is the device-tree configuration and the clock;
\* cfg.xclk is the index of the clock rate in imx585_inck_table (-1: not
\* in the table).  When probe fails the device structure is released; the
\* global mode table keeps what imx585_check_hwcfg() wrote into it.
imx585_probe(s, cfg) ==
    LET s0 == [s EXCEPT !.d.mono = cfg.mono, !.d.clear_HDR = cfg.hdr,
                        !.d.sync_mode = IF cfg.sync > 2 THEN 0 ELSE cfg.sync]
        s1 == imx585_check_hwcfg(s0, cfg)
    IN  IF s1.ret # 0 THEN SetRet([s1 EXCEPT !.d = DevZero], -EINVAL)
        ELSE IF cfg.xclk \notin DOMAIN imx585_inck_table
        THEN SetRet([s1 EXCEPT !.d = DevZero], -EINVAL)
        ELSE LET s2 == [s1 EXCEPT
                          !.d.inck_sel_val = imx585_inck_table[cfg.xclk],
                          !.d.mode = 0,
                          !.d.fmt_code = IF cfg.mono THEN "Y12"
                                         ELSE "SRGGB12",
                          !.d.attached = TRUE]
             IN  imx585_init_controls(s2)

\* imx585_remove()
imx585_remove(s) == SetRet([s EXCEPT !.d = DevZero], 0)

\* VIDIOC_S_CTRL on one control: v4l2_s_ctrl() refuses read-only controls
\* and hands the value to set_ctrl() under the handler lock.
v4l2_s_ctrl(s, id, v) ==
    IF "READ_ONLY" \in s.d.ctrl[id].flags THEN SetRet(s, -EACCES)
    ELSE mutex_unlock(v4l2_set_ctrl(mutex_lock(s), id, v))

---------------------------------------------------------------------------
(* Actions: one per entry point of the driver                              *)

\* The device is bound, alive and the system is not suspended
Usable(i) == dev[i].attached /\ ~dev[i].oops /\ ~dev[i].sys_suspended

\* No entry point is under way
NoCall == [op |-> "none", index |-> 0, code |-> ""]

\* Commit the outcome s of operation op on instance i.  These operations
\* run from start to end under the device mutex (or while nothing else can
\* call into the driver), so each is one step.
Commit(i, op, id, v, s) ==
    /\ call' = call
    /\ dev' = [dev EXCEPT ![i] = s.d]
    /\ supported_modes' = s.modes
    /\ last' = [op |-> op, i |-> i, id |-> id, v |-> v, ret |-> s.ret,
                log |-> s.log, powered |-> pm_in_use(dev[i])]

Probe(i, cfg) ==
    /\ ~dev[i].attached
    /\ Commit(i, "probe", "", cfg,
              imx585_probe(Ctx(DevZero, supported_modes, {}), cfg))

Remove(i) ==
    /\ Usable(i)
    /\ Commit(i, "remove", "", 0,
              imx585_remove(Ctx(dev[i], supported_modes, {})))

CtrlWrite(i, id, v, f) ==
    /\ Usable(i)
    /\ f # {} => dev[i].rpm_active
    /\ Commit(i, "s_ctrl", id, v,
              v4l2_s_ctrl(Ctx(dev[i], supported_modes, f), id, v))

SetPadFormat(i, fmt, oob, f) ==
    /\ Usable(i)
    /\ f # {} => dev[i].rpm_active
    /\ Commit(i, "set_fmt", "", fmt,
              imx585_set_pad_format(Ctx(dev[i], supported_modes, f),
                                    fmt, oob))

SetStream(i, enable, f) ==
    /\ Usable(i)
    /\ enable => dev[i].usage_count < MaxUsage
    /\ Commit(i, "s_stream", "", enable,
              imx585_set_stream(Ctx(dev[i], supported_modes, f),
                                enable))

\* The queued runtime suspend after the last reference was dropped
RuntimeSuspend(i) ==
    /\ Usable(i)
    /\ dev[i].rpm_active /\ dev[i].usage_count = 0
    /\ Commit(i, "runtime_suspend", "", 0,
              SetRet(imx585_power_off(Ctx(dev[i], supported_modes, {})), 0))

Suspend(i, f) ==
    /\ Usable(i)
    /\ LET s == imx585_suspend(Ctx(dev[i], supported_modes, f))
       IN  Commit(i, "suspend", "", 0, [s EXCEPT !.d.sys_suspended = TRUE])

Resume(i, f) ==
    /\ dev[i].attached /\ ~dev[i].oops /\ dev[i].sys_suspended
    /\ LET s == imx585_resume(Ctx(dev[i], supported_modes, f))
       IN  Commit(i, "resume", "", 0, [s EXCEPT !.d.sys_suspended = FALSE])

GetPadFormat(i, fmt, oob) ==
    /\ Usable(i)
    /\ Commit(i, "get_fmt", imx585_get_pad_format_code(dev[i], fmt, oob),
              fmt,
              imx585_get_pad_format(Ctx(dev[i], supported_modes, {}), fmt))

GetSelection(i, target) ==
    /\ Usable(i)
    /\ Commit(i, "get_selection", target, 0,
              imx585_get_selection(Ctx(dev[i], supported_modes, {}),
                                   target))

\* imx585_enum_mbus_code() takes no lock: its two reads of the device are
\* two steps, and other entry points may run in between.
EnumMbusCodeBegin(i, pad, index) ==
    /\ Usable(i) /\ call[i] = NoCall
    /\ LET r == imx585_enum_mbus_code_lookup(dev[i], pad, index)
       IN  IF r.done
           THEN /\ last' = [op |-> "enum_mbus_code", i |-> i, id |-> r.code,
                            v |-> [pad |-> pad, index |-> index],
                            ret |-> r.ret, log |-> <<>>,
                            powered |-> pm_in_use(dev[i])]
                /\ call' = call
           ELSE /\ call' = [call EXCEPT ![i] =
                               [op |-> "enum_mbus_code", index |-> index,
                                code |-> r.code]]
                /\ last' = last
    /\ UNCHANGED <<dev, supported_modes>>

EnumMbusCodeEnd(i, oob) ==
    /\ Usable(i) /\ call[i].op = "enum_mbus_code"
    /\ last' = [op |-> "enum_mbus_code", i |-> i,
                id |-> imx585_enum_mbus_code_report(dev[i], call[i].code,
                                                    oob),
                v |-> [pad |-> IMAGE_PAD, index |-> call[i].index],
                ret |-> 0, log |-> <<>>, powered |-> pm_in_use(dev[i])]
    /\ call' = [call EXCEPT ![i] = NoCall]
    /\ UNCHANGED <<dev, supported_modes>>

Init ==
    /\ supported_modes = supported_modes_init
    /\ dev = [i \in Instances |-> DevZero]
    /\ last = [op |-> "init", i |-> 0, id |-> "", v |-> 0, ret |-> 0,
               log |-> <<>>, powered |-> FALSE]
    /\ call = [i \in Instances |-> NoCall]

---------------------------------------------------------------------------
(* Inputs                                                                  *)

\* A device-tree configuration that probes successfully
Cfg(lanes, link_freq, hdr, mono) ==
    [lanes |-> lanes, link_freq |-> link_freq, hdr |-> hdr, mono |-> mono,
     sync |-> 0, xclk |-> 0]

\* 4 lanes at 891 MHz, with and without the clearHDR-mode property
MainCfgs == {Cfg(4, 5, h, FALSE) : h \in BOOLEAN}

\* Every lane count, link frequency and clearHDR-mode setting
TimingCfgs ==
    {Cfg(l, lf, h, FALSE) : l \in {2, 4}, lf \in LinkFreqIdx, h \in BOOLEAN}

\* Two boards that differ in lane count, link frequency or HDR
MultiCfgs == {Cfg(4, 5, FALSE, FALSE), Cfg(2, 5, FALSE, FALSE),
              Cfg(4, 7, TRUE, FALSE)}

\* Control writes <<id, value>>: below the minimum, odd, above the maximum
WdrInputs == {<<"WIDE_DYNAMIC_RANGE", 0>>, <<"WIDE_DYNAMIC_RANGE", 1>>}

FrameInputs ==
    WdrInputs \cup {<<"VBLANK", 0>>, <<"VBLANK", 4001>>,
                    <<"EXPOSURE", 60000>>, <<"HBLANK", 100>>}

GainInputs ==
    WdrInputs \cup {<<"ANALOGUE_GAIN", 20>>, <<"ANALOGUE_GAIN", 300>>,
                    <<"HGC_GAIN", 0>>, <<"HGC_GAIN", 1>>, <<"VBLANK", 4001>>}

CtrlInputs ==
    {<<"VBLANK", 4001>>, <<"EXPOSURE", 1501>>, <<"ANALOGUE_GAIN", 20>>,
     <<"HBLANK", 100>>, <<"HFLIP", 1>>, <<"VFLIP", 1>>,
     <<"BRIGHTNESS", 5000>>, <<"HGC_GAIN", 1>>}

\* Writes to the HDR-only controls and to the HCG control
HdrCtrlInputs ==
    WdrInputs \cup {<<"HDR_DATASEL_TH", <<256, 768>> >>,
                    <<"HDR_DATASEL_BK", 3>>,
                    <<"HDR_GRAD_TH", <<700, 9000>> >>,
                    <<"HDR_GRAD_COMP_L", 4>>, <<"HDR_GRAD_COMP_H", 8>>,
                    <<"HDR_GAIN", 4>>, <<"HGC_GAIN", 1>>}

\* Bus faults: the set of registers whose writes fail during one operation
NoFault == {{}}

FrameFaults == NoFault \cup {{"SHR"}}

GainFaults == NoFault \cup {{"ANALOG_GAIN"}, {"FDG_SEL0"}}

StreamFaults == NoFault \cup {{"INCK_SEL"}, {"VMAX"}}

\* A format request on a pad: the frame size of mode m with a code
FmtOn(pad, which, code, m) ==
    [pad |-> pad, which |-> which, code |-> code,
     width |-> supported_modes_init[m].width,
     height |-> supported_modes_init[m].height]

\* The active format of the image pad
Fmt(code, m) == FmtOn(IMAGE_PAD, "ACTIVE", code, m)

\* The two frame sizes, in the default 12-bit format
SizeInputs == {Fmt("SRGGB12", m) : m \in ModeIdx}

\* The registers a control's handler writes for the control itself
OwnRegs(id) ==
    CASE id = "EXPOSURE" -> {"SHR"}
      [] id = "ANALOGUE_GAIN" -> {"ANALOG_GAIN"}
      [] id = "VBLANK" -> {"VMAX"}
      [] id = "HBLANK" -> {"HMAX"}
      [] id = "BRIGHTNESS" -> {"BLKLEVEL"}
      [] id = "HGC_GAIN" -> {"FDG_SEL0"}
      [] id = "HDR_DATASEL_TH" -> {"EXP_TH_H", "EXP_TH_L"}
      [] id = "HDR_GRAD_TH" -> {"CCMP1_EXP", "CCMP2_EXP"}
      [] OTHER -> {}

\* Control writes for the fault runs: a control with one register, two
\* whose handlers touch another control, two with two registers
FaultCtrlInputs ==
    {<<"VBLANK", 4001>>, <<"EXPOSURE", 1501>>, <<"HGC_GAIN", 1>>,
     <<"HDR_DATASEL_TH", <<256, 768>> >>,
     <<"HDR_GRAD_TH", <<700, 9000>> >>}

\* No fault, or one of the control's own registers refused
OwnFaults(id) == NoFault \cup {{r} : r \in OwnRegs(id)}

\* Device-tree configurations with supported and unsupported lane counts,
\* link frequencies (-1: not in link_freqs[]) and clock rates (-1: not in
\* imx585_inck_table)
ProbeCfgs ==
    {[Cfg(l, lf, h, FALSE) EXCEPT !.xclk = x] :
         l \in 1..4, lf \in {-1, 0, 5}, h \in BOOLEAN, x \in {-1, 0, 4}}

\* Colour and mono boards, with and without the clearHDR-mode property
FormatCfgs == {Cfg(4, 5, h, m) : h \in BOOLEAN, m \in BOOLEAN}

\* Format requests.  Image pad: active and try, a colour and a mono code
\* of either depth, both frame sizes.  Metadata pad and the pad number one
\* past the last pad: the full frame.
FormatInputs ==
    {FmtOn(IMAGE_PAD, which, code, m) :
         which \in {"ACTIVE", "TRY"},
         code \in {"SRGGB12", "SRGGB16", "Y12", "Y16"}, m \in ModeIdx}
    \cup {FmtOn(METADATA_PAD, which, "SRGGB12", 1) :
              which \in {"ACTIVE", "TRY"}}
    \cup {FmtOn(NUM_PADS, "ACTIVE", "SRGGB12", 1)}

\* What the read past the end of a code table yields: a code of the
\* driver, or a value that is none of them
OobInputs == {"INVALID", "SRGGB16"}

\* Registers of the stream-on sequence whose write can be refused, one at
\* a time: table entries, the unchecked set-up writes, a control register
\* and the mode select
EnableRegs ==
    {"XMSTA", "INCK_SEL", "DATARATE_SEL", "LANEMODE", "BIN_MODE",
     "EXTMODE", "XXS_OUTSEL", "ADDMODE", "WDMODE", "CCMP_EN",
     "DIGITAL_CLAMP", "VMAX", "MODE_SELECT"}

EnableFaults == NoFault \cup {{r} : r \in EnableRegs}

\* Faults while the sensor is put to standby or restarted after a sleep
StandbyFaults == NoFault \cup {{"MODE_SELECT"}}

RestartFaults == NoFault \cup {{"WDMODE"}, {"MODE_SELECT"}}

\* Boards with internal and with external synchronisation
StreamCfgs ==
    MainCfgs \cup {[Cfg(4, 5, TRUE, FALSE) EXCEPT !.sync = 2]}

\* The full frame in a 12-bit and in a 16-bit format
DepthInputs == {Fmt("SRGGB12", 1), Fmt("SRGGB16", 1)}

---------------------------------------------------------------------------
(* Next-state relations                                                    *)

\* One device: framing controls, format, streaming, system sleep, faults
Next ==
    \E i \in {1} :
        \/ \E cfg \in MainCfgs : Probe(i, cfg)
        \/ Remove(i)
        \/ \E in \in FrameInputs, f \in FrameFaults :
               CtrlWrite(i, in[1], in[2], f)
        \/ \E fmt \in SizeInputs : SetPadFormat(i, fmt, "INVALID", {})
        \/ \E enable \in BOOLEAN, f \in StreamFaults :
               SetStream(i, enable, f)
        \/ RuntimeSuspend(i)
        \/ Suspend(i, {})
        \/ \E f \in StreamFaults : Resume(i, f)

Spec == Init /\ [][Next]_vars

\* One device in every configuration: attach, HDR toggle, detach
NextTiming ==
    \E i \in {1} :
        \/ \E cfg \in TimingCfgs : Probe(i, cfg)
        \/ \E in \in WdrInputs : CtrlWrite(i, in[1], in[2], {})
        \/ Remove(i)

SpecTiming == Init /\ [][NextTiming]_vars

\* Two devices bound to the driver
NextMulti ==
    \E i \in Instances :
        \/ \E cfg \in MultiCfgs : Probe(i, cfg)
        \/ \E in \in WdrInputs : CtrlWrite(i, in[1], in[2], {})
        \/ Remove(i)

SpecMulti == Init /\ [][NextMulti]_vars

\* One device: gain, conversion gain and HDR, with streaming and faults
NextGain ==
    \E i \in {1} :
        \/ \E cfg \in MainCfgs : Probe(i, cfg)
        \/ \E in \in GainInputs, f \in GainFaults :
               CtrlWrite(i, in[1], in[2], f)
        \/ \E enable \in BOOLEAN, f \in {{}, {"ANALOG_GAIN"}} :
               SetStream(i, enable, f)
        \/ RuntimeSuspend(i)

SpecGain == Init /\ [][NextGain]_vars

\* One device: every register-backed control, powered and unpowered
NextCtrl ==
    \E i \in {1} :
        \/ \E cfg \in MainCfgs : Probe(i, cfg)
        \/ \E in \in CtrlInputs : CtrlWrite(i, in[1], in[2], {})
        \/ \E enable \in BOOLEAN : SetStream(i, enable, {})
        \/ RuntimeSuspend(i)

SpecCtrl == Init /\ [][NextCtrl]_vars

\* One device: the HDR-only controls and HCG across HDR toggles
NextHdrCtrl ==
    \E i \in {1} :
        \/ \E cfg \in MainCfgs : Probe(i, cfg)
        \/ \E in \in HdrCtrlInputs : CtrlWrite(i, in[1], in[2], {})
        \/ \E enable \in BOOLEAN : SetStream(i, enable, {})
        \/ RuntimeSuspend(i)

SpecHdrCtrl == Init /\ [][NextHdrCtrl]_vars

\* One device: stream on and off with a refused write at every position,
\* format depth, HDR toggle, runtime and system sleep
NextStream ==
    \E i \in {1} :
        \/ \E cfg \in StreamCfgs : Probe(i, cfg)
        \/ \E in \in WdrInputs : CtrlWrite(i, in[1], in[2], {})
        \/ \E fmt \in DepthInputs, oob \in {"INVALID", "SRGGB16"} :
               SetPadFormat(i, fmt, oob, {})
        \/ \E f \in EnableFaults : SetStream(i, TRUE, f)
        \/ \E f \in StandbyFaults : SetStream(i, FALSE, f)
        \/ RuntimeSuspend(i)
        \/ \E f \in StandbyFaults : Suspend(i, f)
        \/ \E f \in RestartFaults : Resume(i, f)

SpecStream == Init /\ [][NextStream]_vars

\* One device: format negotiation on every pad, HDR toggle, frame length
NextFormat ==
    \E i \in {1} :
        \/ \E cfg \in FormatCfgs : Probe(i, cfg)
        \/ \E in \in WdrInputs \cup {<<"VBLANK", 4001>>} :
               CtrlWrite(i, in[1], in[2], {})
        \/ \E fmt \in FormatInputs, oob \in OobInputs :
               SetPadFormat(i, fmt, oob, {})
        \/ \E enable \in BOOLEAN : SetStream(i, enable, {})
        \/ RuntimeSuspend(i)

\* One device: attach with good and bad configurations, HDR toggle, detach
NextProbe ==
    \E i \in {1} :
        \/ \E cfg \in ProbeCfgs : Probe(i, cfg)
        \/ \E in \in WdrInputs : CtrlWrite(i, in[1], in[2], {})
        \/ Remove(i)

SpecProbe == Init /\ [][NextProbe]_vars

\* One device: bus-code enumeration next to HDR toggles, format changes
\* and streaming
NextEnum ==
    \E i \in {1} :
        \/ \E cfg \in FormatCfgs : Probe(i, cfg)
        \/ \E in \in WdrInputs : CtrlWrite(i, in[1], in[2], {})
        \/ \E fmt \in SizeInputs : SetPadFormat(i, fmt, "INVALID", {})
        \/ \E enable \in BOOLEAN : SetStream(i, enable, {})
        \/ \E pad \in 0..NUM_PADS, index \in 0..2 :
               EnumMbusCodeBegin(i, pad, index)
        \/ \E oob \in OobInputs : EnumMbusCodeEnd(i, oob)

SpecEnum == Init /\ [][NextEnum]_vars

\* Format requests that reach every path of imx585_set_pad_format() and
\* imx585_get_pad_format()
LockFormatInputs ==
    {FmtOn(IMAGE_PAD, "ACTIVE", "SRGGB12", m) : m \in ModeIdx}
    \cup {FmtOn(IMAGE_PAD, "TRY", "Y16", 1),
          FmtOn(METADATA_PAD, "ACTIVE", "SRGGB12", 1),
          FmtOn(NUM_PADS, "ACTIVE", "SRGGB12", 1)}

\* A colour and a mono board, HDR off at attach
LockCfgs == {Cfg(4, 5, FALSE, m) : m \in BOOLEAN}

\* The selection targets of imx585_get_selection(), and one it does not
\* know
SelectionTargets == {"CROP", "NATIVE_SIZE", "CROP_BOUNDS", "COMPOSE"}

\* One device: every entry point that takes the device mutex, on every
\* return path
NextLock ==
    \E i \in {1} :
        \/ \E cfg \in LockCfgs : Probe(i, cfg)
        \/ \E in \in WdrInputs \cup {<<"VBLANK", 4001>>} :
               CtrlWrite(i, in[1], in[2], {})
        \/ \E fmt \in LockFormatInputs : SetPadFormat(i, fmt, "INVALID", {})
        \/ \E fmt \in LockFormatInputs : GetPadFormat(i, fmt, "INVALID")
        \/ \E target \in SelectionTargets : GetSelection(i, target)
        \/ \E enable \in BOOLEAN, f \in {{}, {"MODE_SELECT"}} :
               SetStream(i, enable, f)
        \/ RuntimeSuspend(i)

SpecLock == Init /\ [][NextLock]_vars

\* Two devices of different lane counts and link frequencies, streaming,
\* with HBLANK written at the ends and inside of its published range
HblankCfgs == {Cfg(4, 5, FALSE, FALSE), Cfg(2, 5, FALSE, FALSE)}

\* HBLANK values: the minimum, an inner value, above every maximum
HblankInputs == {0, 100, 700000}

NextHblank ==
    \E i \in Instances :
        \/ \E cfg \in HblankCfgs : Probe(i, cfg)
        \/ \E v \in HblankInputs : CtrlWrite(i, "HBLANK", v, {})
        \/ \E enable \in BOOLEAN : SetStream(i, enable, {})

SpecHblank == Init /\ [][NextHblank]_vars

\* One device: control writes with the control's own register refused
NextCtrlFault ==
    \E i \in {1} :
        \/ \E cfg \in MainCfgs : Probe(i, cfg)
        \/ \E in \in FaultCtrlInputs : \E f \in OwnFaults(in[1]) :
               CtrlWrite(i, in[1], in[2], f)
        \/ \E enable \in BOOLEAN : SetStream(i, enable, {})
        \/ RuntimeSuspend(i)

SpecCtrlFault == Init /\ [][NextCtrlFault]_vars

SpecFormat == Init /\ [][NextFormat]_vars

\* One device in every configuration and either frame size
NextFraming ==
    \E i \in {1} :
        \/ \E cfg \in TimingCfgs : Probe(i, cfg)
        \/ \E in \in WdrInputs : CtrlWrite(i, in[1], in[2], {})
        \/ \E fmt \in SizeInputs : SetPadFormat(i, fmt, "INVALID", {})
        \/ Remove(i)

SpecFraming == Init /\ [][NextFraming]_vars

---------------------------------------------------------------------------
(* Properties                                                              *)

\* The bounds imx585_update_hmax computes for mode m from the configuration
\* of device d
BoundsOf(d, m) ==
    [min_HMAX |-> (HMAX_table_4lane_4K[d.link_freq_idx]
                   * (IF d.lane_count = 2 THEN 2 ELSE 1))
                  \div supported_modes_init[m].hmax_div,
     min_VMAX |-> IMX585_VMAX_DEFAULT * (IF d.clear_HDR THEN 2 ELSE 1)]

C2_PerInstanceBounds ==
    \A i \in Instances : dev[i].attached =>
        LET mode == supported_modes[dev[i].mode]
        IN  /\ mode.min_HMAX = BoundsOf(dev[i], dev[i].mode).min_HMAX
            /\ mode.min_VMAX = BoundsOf(dev[i], dev[i].mode).min_VMAX

\* The frame timing of device i is within the bounds of its mode
TimingWithinBounds(i) ==
    /\ dev[i].HMAX >= supported_modes[dev[i].mode].min_HMAX
    /\ dev[i].VMAX >= supported_modes[dev[i].mode].min_VMAX

\* C3: in every reachable state (after control writes, set_pad_format, HDR
\* toggles, stream on and off) the line length and frame length of every
\* attached device are at least the minima of its mode: hmax >=
\* mode.min_hmax and vmax >= mode.min_vmax.
C3_TimingAtLeastMinimum ==
    \A i \in Instances : dev[i].attached => TimingWithinBounds(i)

\* The same for one device alone on the system
C3_SingleDevice == dev[1].attached => TimingWithinBounds(1)

\* SHR_MIN or SHR_MIN_HDR, by the HDR state of device d
MinShr(d) == IF d.clear_HDR THEN 10 ELSE 8

\* The exposure control of device d has the range [2, vmax - SHR_MIN(_HDR)]
\* and its current value lies inside
ExposureRangeFollowsVmax(d) ==
    /\ d.ctrl["EXPOSURE"].maximum = d.VMAX - MinShr(d)
    /\ d.ctrl["EXPOSURE"].minimum = 2
    /\ d.ctrl["EXPOSURE"].cur >= d.ctrl["EXPOSURE"].minimum
    /\ d.ctrl["EXPOSURE"].cur <= d.ctrl["EXPOSURE"].maximum

\* The last step was an operation that sets the frame length: a powered
\* VBLANK write, or the framing limits applied by set_pad_format, by an
\* HDR toggle that changed the value, or at control initialisation
LastSetVmax ==
    /\ last.i = 1 /\ last.ret = 0 /\ dev[1].attached
    /\ \/ last.op = "probe"
       \/ last.op = "set_fmt"
       \/ last.op = "s_ctrl" /\ last.id = "VBLANK" /\ last.powered

\* C4: after any operation that changes the frame length (a VBLANK write,
\* the framing limits applied by set_pad_format, by the HDR toggle or at
\* control initialisation) the exposure maximum is vmax - 8 with HDR off
\* and vmax - 10 with HDR on, the minimum is 2, and the current exposure
\* lies in [min, max].
C4_ExposureRangeAfterVmaxChange ==
    LastSetVmax => ExposureRangeFollowsVmax(dev[1])

UnpoweredWrite(id) ==
    /\ last.op = "s_ctrl" /\ last.id = id /\ last.i = 1
    /\ ~last.powered /\ dev[1].attached

\* The controls whose handler only writes registers
RegisterCtrls ==
    {"EXPOSURE", "ANALOGUE_GAIN", "VBLANK", "HBLANK", "HFLIP", "VFLIP",
     "BRIGHTNESS", "HGC_GAIN"}

\* C6: a write to the exposure, analogue gain, VBLANK, HBLANK, flip, black
\* level or HCG control while the device is not in an active power state
\* issues no register write and returns success, and the framework caches
\* the written value as the control's current value.
C6_UnpoweredWriteCached ==
    \A id \in RegisterCtrls :
        UnpoweredWrite(id) =>
            /\ last.log = <<>>
            /\ last.ret = 0
            /\ dev[1].ctrl[id].cur =
                   Clamp(last.v, dev[1].ctrl[id].minimum,
                         dev[1].ctrl[id].maximum)

\* An unpowered VBLANK write of 4001 that was cached without a register
\* write
C6_Witness ==
    /\ UnpoweredWrite("VBLANK") /\ last.v = 4001
    /\ dev[1].ctrl["VBLANK"].cur = 4001
    /\ last.log = <<>> /\ last.ret = 0

\* hmax for an hblank value in mode m: the division of the HBLANK handler
HmaxOf(m, hblank) ==
    MulDiv(m.width + hblank, IMX585_PIXEL_RATE,
           MulDiv(m.width, IMX585_PIXEL_RATE, m.min_HMAX))

\* C7: a control write on a powered-down device skips only the hardware
\* write and still updates the in-memory state: after a VBLANK write of v,
\* vmax = (height + v) & ~1 and the exposure range follows it; after an
\* HBLANK write hmax is updated; after an HCG write the hcg flag and the
\* gain range are updated.
C7_UnpoweredWriteUpdatesState ==
    LET d    == dev[1]
        mode == supported_modes[d.mode]
    IN  /\ UnpoweredWrite("VBLANK") =>
               /\ d.VMAX = ClearBit0(mode.height + d.ctrl["VBLANK"].cur)
               /\ d.ctrl["EXPOSURE"].maximum = d.VMAX - MinShr(d)
        /\ UnpoweredWrite("HBLANK") =>
               d.HMAX = HmaxOf(mode, d.ctrl["HBLANK"].cur)
        /\ (UnpoweredWrite("HGC_GAIN") /\ ~d.clear_HDR) =>
               /\ d.hgc = (d.ctrl["HGC_GAIN"].cur # 0)
               /\ d.ctrl["ANALOGUE_GAIN"].minimum = (IF d.hgc THEN 34 ELSE 0)

\* Index of the last write to reg in a log, 0 when there is none
RECURSIVE LastIndexFrom(_, _, _)
LastIndexFrom(log, reg, k) ==
    IF k = 0 THEN 0
    ELSE IF log[k].reg = reg THEN k
    ELSE LastIndexFrom(log, reg, k - 1)

LastIndex(log, reg) == LastIndexFrom(log, reg, Len(log))

\* The value last written to reg in a log that writes reg
LastWritten(log, reg) == log[LastIndex(log, reg)].val

\* C8: when imx585_set_stream(1) returns success, the last values written
\* to the VMAX, HMAX, SHR and analogue gain registers are the ones derived
\* from the current vblank, hblank, exposure and gain control values:
\* VMAX = (height + vblank) & ~1, SHR = (VMAX - exposure) & ~1, with VBLANK
\* applied before the exposure.
C8_StreamOnAppliesControls ==
    (/\ last.op = "s_stream" /\ last.v = TRUE /\ last.ret = 0
     /\ last.log # <<>> /\ dev[1].attached)
    => LET d    == dev[1]
           mode == supported_modes[d.mode]
           log  == last.log
           vmax == ClearBit0(mode.height + d.ctrl["VBLANK"].cur)
       IN  /\ LastIndex(log, "VMAX") > 0 /\ LastIndex(log, "SHR") > 0
           /\ LastIndex(log, "HMAX") > 0
           /\ LastIndex(log, "ANALOG_GAIN") > 0
           /\ LastWritten(log, "VMAX") = vmax
           /\ LastWritten(log, "SHR")
                  = ClearBit0(vmax - d.ctrl["EXPOSURE"].cur)
           /\ LastWritten(log, "HMAX") = HmaxOf(mode, d.ctrl["HBLANK"].cur)
           /\ LastWritten(log, "ANALOG_GAIN") = d.ctrl["ANALOGUE_GAIN"].cur
           /\ LastIndex(log, "VMAX") < LastIndex(log, "SHR")

\* Control id of device record d is active
Active(d, id) == "INACTIVE" \notin d.ctrl[id].flags

\* What a performed HDR toggle leaves behind in device record d and mode
\* table modes: activation of the HDR-only and HCG controls, gain range,
\* frame-length bounds of every mode, and the reapplied framing limits
HdrToggleEffects(d, modes) ==
    /\ \A id \in HdrCtrls : Active(d, id) <=> d.clear_HDR
    /\ Active(d, "HGC_GAIN") <=> ~d.clear_HDR
    /\ d.ctrl["ANALOGUE_GAIN"].minimum = (IF d.hgc THEN 34 ELSE 0)
    /\ d.ctrl["ANALOGUE_GAIN"].maximum = (IF d.clear_HDR THEN 80 ELSE 240)
    /\ \A m \in ModeIdx :
           modes[m].min_VMAX = (IF d.clear_HDR THEN 4500 ELSE 2250)
    /\ d.VMAX = modes[d.mode].min_VMAX
    /\ d.ctrl["VBLANK"].cur = modes[d.mode].min_VMAX - modes[d.mode].height

\* What an HDR write that changes nothing must leave alone
HdrToggleFrame(d, modes) ==
    <<d.clear_HDR, [id \in CtrlIds |-> Active(d, id)],
      d.ctrl["ANALOGUE_GAIN"].minimum, d.ctrl["ANALOGUE_GAIN"].maximum,
      modes, d.VMAX, d.ctrl["VBLANK"].cur>>

\* The step is a write to the WIDE_DYNAMIC_RANGE control of device 1
WdrWriteStep ==
    /\ dev[1].attached /\ dev'[1].attached
    /\ last'.op = "s_ctrl" /\ last'.id = "WIDE_DYNAMIC_RANGE" /\ last'.i = 1

\* C9: a write to the WIDE_DYNAMIC_RANGE control that changes its value
\* flips hdr_enabled, makes the HDR-only controls active iff HDR is on and
\* the HCG control active iff HDR is off, recomputes the gain range, sets
\* every mode's min_vmax to 4500 (HDR on) or 2250 (off) and reapplies the
\* framing limits (vmax = min_vmax, vblank = min_vmax - height), powered
\* or not; a write that does not change the value changes none of these.
C9_HdrToggleStep ==
    [][WdrWriteStep =>
         IF dev'[1].ctrl["WIDE_DYNAMIC_RANGE"].cur
                # dev[1].ctrl["WIDE_DYNAMIC_RANGE"].cur
         THEN /\ dev'[1].clear_HDR # dev[1].clear_HDR
              /\ HdrToggleEffects(dev'[1], supported_modes')
         ELSE HdrToggleFrame(dev'[1], supported_modes')
                  = HdrToggleFrame(dev[1], supported_modes)]_vars

\* C10: in every state reached by turning the HDR toggle on, whatever the
\* HCG state was before, hcg_enabled is false, the HCG control is
\* deactivated and the analogue gain range is [0, 80], never [34, 80].
C10_HdrOnForcesHcgOff ==
    [][(WdrWriteStep /\ ~dev[1].clear_HDR /\ dev'[1].clear_HDR) =>
          /\ ~dev'[1].hgc
          /\ ~Active(dev'[1], "HGC_GAIN")
          /\ dev'[1].ctrl["ANALOGUE_GAIN"].minimum = 0
          /\ dev'[1].ctrl["ANALOGUE_GAIN"].maximum = 80]_vars

\* C11: turning HDR on and then off again restores HCG.  The HDR toggle,
\* in either direction, leaves hcg_enabled as it was; no step taken while
\* HDR stays on (HCG control writes included) changes it; and the write
\* that turns HDR off leaves the gain range at [34, 240] when hcg_enabled
\* is true and [0, 240] otherwise.  So after 0 -> 1 -> 0 hcg_enabled is
\* what it was just before HDR was enabled.
C11_HdrOffRestoresHcg ==
    [][(dev[1].attached /\ dev'[1].attached) =>
          /\ (WdrWriteStep \/ (dev[1].clear_HDR /\ dev'[1].clear_HDR))
                 => dev'[1].hgc = dev[1].hgc
          /\ (WdrWriteStep /\ dev[1].clear_HDR /\ ~dev'[1].clear_HDR)
                 => /\ dev'[1].ctrl["ANALOGUE_GAIN"].minimum
                           = (IF dev[1].hgc THEN 34 ELSE 0)
                    /\ dev'[1].ctrl["ANALOGUE_GAIN"].maximum = 240]_vars

\* HDR was just switched off with hcg_enabled still true, although the HCG
\* control was written to 0 meanwhile: the range is back at [34, 240]
C11_Witness ==
    /\ dev[1].attached /\ last.op = "s_ctrl"
    /\ last.id = "WIDE_DYNAMIC_RANGE" /\ last.v = 0 /\ last.ret = 0
    /\ ~dev[1].clear_HDR /\ dev[1].hgc
    /\ dev[1].ctrl["HGC_GAIN"].cur = 0
    /\ dev[1].ctrl["ANALOGUE_GAIN"].minimum = 34
    /\ dev[1].ctrl["ANALOGUE_GAIN"].maximum = 240

\* C12: in every state after attach, for either initial HDR setting, the
\* analogue gain range is [34, 240] with HCG on and HDR off, [0, 240] with
\* both off, and has maximum 80 (minimum 0 or 34) with HDR on; the current
\* gain lies inside the range.
C12_GainRange ==
    dev[1].attached =>
        LET d    == dev[1]
            gain == d.ctrl["ANALOGUE_GAIN"]
        IN  /\ gain.maximum = (IF d.clear_HDR THEN 80 ELSE 240)
            /\ ~d.clear_HDR => gain.minimum = (IF d.hgc THEN 34 ELSE 0)
            /\ d.clear_HDR => gain.minimum \in {0, 34}
            /\ gain.cur >= gain.minimum /\ gain.cur <= gain.maximum

\* The last step was a write to a control that the HDR state makes
\* inactive: an HDR-only control with HDR off, or HCG with HDR on
InactiveWrite ==
    /\ dev[1].attached /\ last.op = "s_ctrl" /\ last.i = 1
    /\ \/ last.id \in HdrCtrls /\ ~dev[1].clear_HDR
       \/ last.id = "HGC_GAIN" /\ dev[1].clear_HDR

\* C13: a control that the HDR toggle has made inactive rejects writes:
\* with HDR off a write to an HDR-only control is rejected and produces no
\* register write, and with HDR on a write to the HCG control is rejected.
C13_InactiveRejectsWrites ==
    InactiveWrite => (last.ret # 0 /\ last.log = <<>>)

\* Register names of a register table, in table order
RegNames(list) == [k \in 1..Len(list) |-> list[k][1]]

\* Registers a control handler writes
ControlRegs ==
    {"SHR", "FDG_SEL0", "ANALOG_GAIN", "VMAX", "HMAX", "WINMODEH",
     "WINMODEV", "BLKLEVEL", "EXP_TH_H", "EXP_TH_L", "EXP_BK", "CCMP1_EXP",
     "CCMP2_EXP", "ACMP1_EXP", "ACMP2_EXP", "EXP_GAIN"}

\* The table part of the stream-on sequence for device record d before
\* the call: the common block with its set-up writes when it has not been
\* written in this power cycle, the mode block, then the ClearHDR block
\* with its bit-depth writes or the normal block
TablePrefix(d) ==
    (IF d.common_regs_written THEN <<>>
     ELSE RegNames(imx585_common_regs)
          \o <<"INCK_SEL", "BLKLEVEL", "DATARATE_SEL", "LANEMODE",
               "BIN_MODE">>
          \o (IF d.sync_mode <= 1
              THEN <<"EXTMODE", "XXS_DRV", "XXS_OUTSEL">>
              ELSE <<"XXS_DRV", "XXS_OUTSEL">>))
    \o RegNames(mode_reg_list(d.mode))
    \o (IF d.clear_HDR
        THEN RegNames(imx585_common_clearHDR_mode)
             \o (IF d.fmt_code \in Codes16 THEN <<"CCMP_EN", "MDBIT">>
                 ELSE <<"CCMP_EN">>)
        ELSE RegNames(imx585_common_normal_mode))

\* The step is a stream enable that took the device from standby to
\* streaming
StreamOnStep ==
    /\ dev[1].attached /\ ~dev[1].streaming /\ dev'[1].streaming
    /\ last'.op = "s_stream" /\ last'.v = TRUE /\ last'.ret = 0

\* C14: in every successful transition from standby to streaming the
\* register writes come in this order: the common registers (only when
\* they have not been written in this power cycle), the mode block, the
\* ClearHDR or the normal block, then the writes derived from the
\* controls, and MODE_SELECT = streaming as the last write; no write of the
\* mode table or of the HDR block follows a control-derived write.
C14_StreamOnWriteOrder ==
    [][StreamOnStep =>
         LET log == last'.log
             pre == TablePrefix(dev[1])
         IN  /\ Len(log) > Len(pre) + 1
             /\ \A k \in 1..Len(pre) : log[k].reg = pre[k]
             /\ \A k \in (Len(pre) + 1)..(Len(log) - 1) :
                    log[k].reg \in ControlRegs \cup {"DIGITAL_CLAMP", "XMSTA"}
             /\ \E k \in (Len(pre) + 1)..(Len(log) - 1) :
                    log[k].reg \in ControlRegs
             /\ log[Len(log)].reg = "MODE_SELECT"
             /\ log[Len(log)].val = IMX585_MODE_STREAMING]_vars

\* A second enable in one power cycle, on an HDR device in a 16-bit
\* format, reached streaming without rewriting the common block
C14_Witness ==
    /\ dev[1].attached /\ dev[1].streaming
    /\ last.op = "s_stream" /\ last.v = TRUE /\ last.ret = 0
    /\ Len(last.log) > 1
    /\ last.log[1].reg = "ADDMODE"
    /\ LastIndex(last.log, "CCMP_EN") > 0
    /\ LastIndex(last.log, "WDMODE") < LastIndex(last.log, "VMAX")
    /\ last.log[Len(last.log)].reg = "MODE_SELECT"

\* The first n entries of log are the first n common registers, all of
\* them but possibly the n-th acknowledged
CommonRegsPrefix(log, n) ==
    /\ Len(log) >= n
    /\ \A k \in 1..n :
           /\ log[k].reg = imx585_common_regs[k][1]
           /\ log[k].val = imx585_common_regs[k][2]
           /\ (k < n => log[k].ok)

\* log starts with a complete, acknowledged write of the common block
CommonRegsWritten(log) ==
    /\ CommonRegsPrefix(log, Len(imx585_common_regs))
    /\ log[Len(imx585_common_regs)].ok

\* log starts with the common block, complete or cut at a refused write
CommonRegsRewritten(log) ==
    \/ CommonRegsWritten(log)
    \/ \E n \in 1..Len(imx585_common_regs) :
           CommonRegsPrefix(log, n) /\ ~log[n].ok /\ Len(log) = n

\* The step runs the start sequence: a stream enable in standby, or the
\* restart of a streaming device on system resume
StartCallStep ==
    /\ dev[1].attached
    /\ \/ last'.op = "s_stream" /\ last'.v = TRUE /\ ~dev[1].streaming
       \/ last'.op = "resume" /\ dev[1].streaming

StreamGrabCtrls == {"VFLIP", "HFLIP", "WIDE_DYNAMIC_RANGE"}

Grabbed(d, id) == "GRABBED" \in d.ctrl[id].flags

\* The step is a stream-enable call that returned an error
StreamOnFailedStep ==
    /\ dev[1].attached
    /\ last'.op = "s_stream" /\ last'.v = TRUE /\ last'.ret # 0

C17_WriteFailureAbortsEnable ==
    (/\ dev[1].attached
     /\ last.op = "s_stream" /\ last.v = TRUE
     /\ \E k \in 1..Len(last.log) : ~last.log[k].ok)
    => (last.ret # 0 /\ ~dev[1].streaming)

\* The step is a stream-disable call on a streaming device
StreamOffStep ==
    /\ dev[1].attached /\ dev[1].streaming
    /\ last'.op = "s_stream" /\ last'.v = FALSE

\* C18: the transition from streaming to standby writes the standby mode
\* select, releases the power reference once, sets streaming to false and
\* releases the grab on the flip and HDR controls, whether the standby
\* write succeeds or fails.
C18_StreamOffAlwaysCompletes ==
    [][StreamOffStep =>
         /\ Len(last'.log) = 1
         /\ last'.log[1].reg = "MODE_SELECT"
         /\ last'.log[1].val = IMX585_MODE_STANDBY
         /\ last'.ret = 0
         /\ dev'[1].usage_count = dev[1].usage_count - 1
         /\ ~dev'[1].streaming
         /\ \A id \in StreamGrabCtrls : ~Grabbed(dev'[1], id)]_vars

\* A stream disable whose standby write was refused
C18_Witness ==
    /\ dev[1].attached /\ ~dev[1].streaming
    /\ last.op = "s_stream" /\ last.v = FALSE /\ last.ret = 0
    /\ last.log = <<[reg |-> "MODE_SELECT", val |-> IMX585_MODE_STANDBY,
                     ok |-> FALSE]>>
    /\ dev[1].usage_count = 0
    /\ \A id \in StreamGrabCtrls : ~Grabbed(dev[1], id)

\* C19: in every reachable state the vflip, hflip and HDR-toggle controls
\* are grabbed exactly when the device is streaming, after any sequence of
\* enables and disables, failed enables and system suspend and resume,
\* a resume whose restart fails included.
C19_GrabbedIffStreaming ==
    dev[1].attached =>
        \A id \in StreamGrabCtrls :
            Grabbed(dev[1], id) <=> dev[1].streaming

\* C20: after every successful stream enable the gradation-compression
\* enable register (CCMP_EN) holds 1 exactly when HDR is enabled and the
\* format is 12-bit; otherwise the enable sequence has written it 0, also
\* when an earlier enable of the same power cycle had set it to 1.  HDR
\* and format are the ones the sequence started with.
C20_GradationCompressionFollowsHdr ==
    [][StreamOnStep =>
         LET log == last'.log
             k   == LastIndex(log, "CCMP_EN")
         IN  /\ k > 0
             /\ log[k].ok
             /\ log[k].val = (IF dev[1].clear_HDR
                                 /\ dev[1].fmt_code \in Codes12
                              THEN 1 ELSE 0)]_vars

\* The request is for the image pad and its code is not in the code table
\* of the device's mono/HDR class, or no mode is offered for it
UnsupportedFormat(d, fmt) ==
    /\ fmt.pad = IMAGE_PAD
    /\ \/ imx585_get_format_code(d, fmt.code) = "OUT_OF_BOUNDS"
       \/ get_mode_table(d, fmt.code) = 0

\* C21: set_pad_format on the image pad with a code that the device's
\* mono/HDR class does not support returns -EINVAL, leaves the active mode
\* and format code unchanged, and never goes on with an empty mode list
\* or with a code from outside the table.
C21_UnsupportedFormatRejected ==
    [][(/\ dev[1].attached /\ last'.op = "set_fmt"
        /\ UnsupportedFormat(dev[1], last'.v))
       => /\ last'.ret = -EINVAL
          /\ ~dev'[1].oops
          /\ dev'[1].mode = dev[1].mode
          /\ dev'[1].fmt_code = dev[1].fmt_code]_vars

\* The last operation was a write to the exposure control that reached
\* the sensor
PoweredExposureWrite ==
    /\ dev[1].attached /\ last.op = "s_ctrl" /\ last.id = "EXPOSURE"
    /\ last.powered /\ last.log # <<>>

\* C22: for every exposure value e accepted while the device is powered,
\* the value written to the SHR register is vmax - e with its lowest bit
\* cleared: it is even, and when vmax - e is odd it is the next even number
\* below.
C22_ShrEven ==
    /\ PoweredExposureWrite =>
           LET d   == dev[1]
               e   == d.ctrl["EXPOSURE"].val
               shr == last.log[1].val
           IN  /\ Len(last.log) = 1 /\ last.log[1].reg = "SHR"
               /\ e >= d.ctrl["EXPOSURE"].minimum
               /\ e <= d.ctrl["EXPOSURE"].maximum
               /\ shr % 2 = 0
               /\ shr = (IF (d.VMAX - e) % 2 = 1 THEN d.VMAX - e - 1
                         ELSE d.VMAX - e)
    /\ \A k \in 1..Len(last.log) :
           last.log[k].reg = "SHR" => last.log[k].val % 2 = 0

\* A powered exposure write with vmax - e odd
C22_Witness ==
    /\ PoweredExposureWrite /\ last.ret = 0
    /\ dev[1].ctrl["EXPOSURE"].cur = last.v
    /\ (dev[1].VMAX - last.v) % 2 = 1
    /\ last.log[1].val = dev[1].VMAX - last.v - 1

\* Range, default and current value of a control
RangeOf(c) ==
    [min |-> c.minimum, max |-> c.maximum, def |-> c.default_value,
     cur |-> c.cur]

\* The hblank maximum for a frame width and a minimum HMAX
HblankMaxOf(width, min_hmax) ==
    MulDiv(IMX585_HMAX_MAX, MulDiv(width, IMX585_PIXEL_RATE, min_hmax),
           IMX585_PIXEL_RATE) - width

\* The device a four-lane board with the link frequency, HDR setting and
\* frame size of d ends up as
FourLaneTwin(d) ==
    LET format(s) ==
            imx585_set_pad_format(Ctx(s.d, s.modes, {}),
                                  Fmt("SRGGB12", d.mode), "INVALID")
    IN  format(imx585_probe(Ctx(DevZero, supported_modes_init, {}),
                            Cfg(4, d.link_freq_idx, d.clear_HDR, FALSE))).d

\* C23: after imx585_set_framing_limits, for any mode, lane count, link
\* frequency and HDR setting, with pixel_rate = width * 74250000 /
\* min_hmax: hblank has range [0, 65535 * pixel_rate / 74250000 - width]
\* with default and current value 0, vblank has range [min_vmax - height,
\* 0xFFFFF - height] with default and current value min_vmax - height, and
\* the hblank maximum on two lanes is smaller than on four lanes for the
\* same link frequency and mode.
C23_FramingLimits ==
    dev[1].attached =>
        LET d    == dev[1]
            mode == supported_modes[d.mode]
        IN  /\ RangeOf(d.ctrl["HBLANK"])
                   = [min |-> 0,
                      max |-> HblankMaxOf(mode.width, mode.min_HMAX),
                      def |-> 0, cur |-> 0]
            /\ d.ctrl["HBLANK"].maximum > 0
            /\ RangeOf(d.ctrl["VBLANK"])
                   = [min |-> mode.min_VMAX - mode.height,
                      max |-> IMX585_VMAX_MAX - mode.height,
                      def |-> mode.min_VMAX - mode.height,
                      cur |-> mode.min_VMAX - mode.height]
            /\ d.lane_count = 2 =>
                   d.ctrl["HBLANK"].maximum
                       < FourLaneTwin(d).ctrl["HBLANK"].maximum

\* A two-lane device in the full-frame mode after an HDR toggle
C23_Witness ==
    /\ dev[1].attached /\ dev[1].lane_count = 2 /\ dev[1].mode = 1
    /\ last.op = "s_ctrl" /\ last.id = "WIDE_DYNAMIC_RANGE"
    /\ last.ret = 0 /\ dev[1].clear_HDR
    /\ dev[1].ctrl["VBLANK"].cur = 2 * IMX585_VMAX_DEFAULT - 2180
    /\ dev[1].ctrl["HBLANK"].maximum
           < FourLaneTwin(dev[1]).ctrl["HBLANK"].maximum

\* What imx585_set_framing_limits leaves behind in context s: the live
\* timing and the ranges of the four controls it touches
FramingOutcome(s) ==
    [HMAX |-> s.d.HMAX, VMAX |-> s.d.VMAX,
     pixel_rate |-> RangeOf(s.d.ctrl["PIXEL_RATE"]),
     hblank |-> RangeOf(s.d.ctrl["HBLANK"]),
     vblank |-> RangeOf(s.d.ctrl["VBLANK"]),
     exposure |-> RangeOf(s.d.ctrl["EXPOSURE"])]

\* A second call right after the call that gave s1 changes nothing
FramingRepeats(s1) ==
    FramingOutcome(imx585_set_framing_limits(Ctx(s1.d, s1.modes, {})))
        = FramingOutcome(s1)

\* C24: imx585_set_framing_limits is idempotent: from any reachable state,
\* two calls in a row for the current mode with nothing in between leave,
\* after the second call, the same live hmax/vmax and the same (min, max,
\* default, current) of the pixel-rate, hblank, vblank and exposure
\* controls as after the first.
C24_FramingLimitsIdempotent ==
    (dev[1].attached /\ ~dev[1].oops) =>
        FramingRepeats(
            imx585_set_framing_limits(Ctx(dev[1], supported_modes, {})))

\* A streaming device with a longer frame, where the first call has work
\* to do
C24_Witness ==
    /\ dev[1].attached /\ ~dev[1].oops /\ dev[1].streaming
    /\ dev[1].ctrl["VBLANK"].cur = 4001
    /\ dev[1].VMAX # supported_modes[dev[1].mode].default_VMAX
    /\ imx585_set_framing_limits(Ctx(dev[1], supported_modes, {})).d.VMAX
           = supported_modes[dev[1].mode].default_VMAX

\* Controls the handler of control id changes by design
RelatedCtrls(id) ==
    CASE id = "VBLANK" -> {"VBLANK", "EXPOSURE"}
      [] id = "HGC_GAIN" -> {"HGC_GAIN", "ANALOGUE_GAIN"}
      [] OTHER -> {id}

\* The step is a powered control write in which a write to one of the
\* control's own registers was refused
CtrlWriteFailedStep ==
    /\ dev[1].attached /\ last'.op = "s_ctrl" /\ last'.powered
    /\ \E k \in 1..Len(last'.log) :
           ~last'.log[k].ok /\ last'.log[k].reg \in OwnRegs(last'.id)

\* C25: when the register write of a control fails while the device is
\* powered, the control-set operation returns the I/O error, the in-memory
\* state is not rolled back (for VBLANK the new live vmax and the new
\* exposure range stay), streaming and the power reference count are
\* unchanged, and value and range of every unrelated control are
\* unchanged.
C25_FailedWriteReturnsError ==
    [][CtrlWriteFailedStep =>
         /\ last'.ret = -EIO
         /\ dev'[1].streaming = dev[1].streaming
         /\ dev'[1].usage_count = dev[1].usage_count
         /\ \A id \in CtrlIds \ RelatedCtrls(last'.id) :
                dev'[1].ctrl[id] = dev[1].ctrl[id]
         /\ last'.id = "VBLANK" =>
                /\ dev'[1].VMAX
                       = ClearBit0(supported_modes[dev[1].mode].height
                                   + dev'[1].ctrl["VBLANK"].val)
                /\ dev'[1].ctrl["EXPOSURE"].maximum
                       = dev'[1].VMAX - MinShr(dev'[1])]_vars

\* The configuration names a lane count, link frequency or clock rate the
\* driver does not support
BadCfg(cfg) ==
    \/ cfg.lanes \notin {2, 4}
    \/ cfg.link_freq \notin LinkFreqIdx
    \/ cfg.xclk \notin DOMAIN imx585_inck_table

\* C26: attach fails with a configuration error, before any timing bound is
\* computed and without the device ending up attached or powered, whenever
\* the lane count is not 2 or 4, the link frequency is not one of the 8
\* table values or the clock rate is not one of the 5 supported rates; an
\* attach that succeeds took every value as configured.
C26_BadConfigRejected ==
    [][last'.op = "probe" =>
         LET cfg == last'.v
         IN  /\ BadCfg(cfg) =>
                    /\ last'.ret = -EINVAL
                    /\ ~dev'[1].attached /\ ~dev'[1].rpm_active
                    /\ supported_modes' = supported_modes
             /\ ~BadCfg(cfg) =>
                    /\ last'.ret = 0 /\ dev'[1].attached
                    /\ dev'[1].lane_count = cfg.lanes
                    /\ dev'[1].link_freq_idx = cfg.link_freq
                    /\ dev'[1].inck_sel_val = imx585_inck_table[cfg.xclk]]_vars

\* The bus codes a device of the mono/HDR class of d offers
OfferedCodes(d) ==
    IF d.mono THEN (IF d.clear_HDR THEN {"Y16", "Y12"} ELSE {"Y12"})
    ELSE IF d.clear_HDR THEN {codes_clearhdr[k] : k \in 1..Len(codes_clearhdr)}
    ELSE {codes_normal[k] : k \in 1..Len(codes_normal)}

\* C27: every entry point that reads or writes the timing/format state
\* runs with the device mutex held, so that under any interleaving of
\* callers none observes a partially updated state: a bus-code
\* enumeration on the image pad that succeeds reports a code the device
\* offers in the mono/HDR class it is in.
C27_EnumerationSeesOneState ==
    (/\ dev[1].attached /\ last.op = "enum_mbus_code" /\ last.ret = 0
     /\ last.v.pad = IMAGE_PAD)
    => last.id \in OfferedCodes(dev[1])

\* The step is a VBLANK write on the powered device whose handler ran up
\* to the VMAX register write
VblankHandledStep ==
    /\ dev[1].attached /\ last'.op = "s_ctrl" /\ last'.id = "VBLANK"
    /\ last'.powered
    /\ \E k \in 1..Len(last'.log) : last'.log[k].reg = "VMAX"

\* C28: during a powered VBLANK write the new exposure range
\* [EXPOSURE_MIN, vmax_new - min_shr] is published and the current
\* exposure is reclamped into it, with the SHR register write issued if the
\* clamp changed it, before the VMAX register write is issued: when the
\* VMAX register holds the new value the exposure control has the new
\* maximum and a value inside the new range.
C28_ExposureBoundBeforeVmaxWrite ==
    [][VblankHandledStep =>
         LET e   == dev'[1].ctrl["EXPOSURE"]
             old == dev[1].ctrl["EXPOSURE"].cur
             log == last'.log
         IN  /\ e.minimum = IMX585_EXPOSURE_MIN
             /\ e.maximum = dev'[1].VMAX - MinShr(dev'[1])
             /\ e.cur = Clamp(old, e.minimum, e.maximum)
             /\ e.cur # old => \E j \in 1..Len(log) : log[j].reg = "SHR"
             /\ \A j, k \in 1..Len(log) :
                    log[j].reg = "SHR" /\ log[k].reg = "VMAX" => j < k
             /\ \A k \in 1..Len(log) :
                    log[k].reg = "VMAX" => log[k].val = dev'[1].VMAX]_vars

\* The step is a set_pad_format call that returned
SetFmtStep ==
    dev[1].attached /\ last'.op = "set_fmt" /\ ~dev'[1].oops

\* The mode whose frame size the request names
RequestedMode(fmt) ==
    CHOOSE m \in ModeIdx :
        /\ supported_modes[m].width = fmt.width
        /\ supported_modes[m].height = fmt.height

\* C29: framing limits are reapplied after every mode selection and only
\* then.  A set_pad_format with which = ACTIVE that changes the mode or
\* the format code sets the new mode and code and resets the live
\* hmax/vmax and the hblank, vblank and exposure ranges to the defaults of
\* the new mode; a set_pad_format with which = TRY, or with which = ACTIVE
\* for the mode and code already active, or on the metadata pad, leaves
\* the active mode, the format code, the live hmax/vmax and value and
\* range of every control unchanged.
C29_FramingLimitsOnModeSelection ==
    [][SetFmtStep =>
         LET fmt == last'.v
             d   == dev[1]
             d1  == dev'[1]
             m   == supported_modes'[d1.mode]
         IN  IF d1.mode # d.mode \/ d1.fmt_code # d.fmt_code
             THEN /\ fmt.pad = IMAGE_PAD /\ fmt.which = "ACTIVE"
                  /\ last'.ret = 0
                  /\ ~UnsupportedFormat(d, fmt) =>
                         /\ d1.mode = RequestedMode(fmt)
                         /\ d1.fmt_code = fmt.code
                  /\ d1.HMAX = m.default_HMAX
                  /\ d1.VMAX = m.default_VMAX
                  /\ RangeOf(d1.ctrl["HBLANK"])
                         = [min |-> 0,
                            max |-> HblankMaxOf(m.width, m.min_HMAX),
                            def |-> 0, cur |-> 0]
                  /\ RangeOf(d1.ctrl["VBLANK"])
                         = [min |-> m.min_VMAX - m.height,
                            max |-> IMX585_VMAX_MAX - m.height,
                            def |-> m.default_VMAX - m.height,
                            cur |-> m.default_VMAX - m.height]
                  /\ d1.ctrl["EXPOSURE"].minimum = IMX585_EXPOSURE_MIN
                  /\ d1.ctrl["EXPOSURE"].maximum
                         = m.default_VMAX - IMX585_SHR_MIN_CLEARHDR
                  /\ d1.ctrl["EXPOSURE"].default_value
                         = IMX585_EXPOSURE_DEFAULT
                  /\ d1.ctrl["EXPOSURE"].cur <= d1.ctrl["EXPOSURE"].maximum
             ELSE /\ d1.HMAX = d.HMAX /\ d1.VMAX = d.VMAX
                  /\ d1.ctrl = d.ctrl
                  /\ supported_modes' = supported_modes
                  /\ (/\ fmt.pad = IMAGE_PAD /\ fmt.which = "ACTIVE"
                      /\ ~UnsupportedFormat(d, fmt))
                     => /\ d.mode = RequestedMode(fmt)
                        /\ d.fmt_code = fmt.code]_vars

\* An ACTIVE request for the small frame on a streaming device with a
\* lengthened frame: the reset of the vblank control reached the sensor
C29_Witness ==
    /\ dev[1].attached /\ ~dev[1].oops /\ last.op = "set_fmt"
    /\ last.ret = 0 /\ last.v.pad = IMAGE_PAD /\ last.v.which = "ACTIVE"
    /\ dev[1].streaming /\ dev[1].mode = RequestedMode(last.v)
    /\ \E k \in 1..Len(last.log) : last.log[k].reg = "VMAX"
    /\ dev[1].VMAX = supported_modes[dev[1].mode].default_VMAX

\* The last operation was a powered write to one of the two controls that
\* are pushed with two register writes, and one of those writes was
\* refused
TwoWriteCtrlFailed ==
    /\ dev[1].attached /\ last.op = "s_ctrl" /\ last.powered
    /\ last.id \in {"HDR_DATASEL_TH", "HDR_GRAD_TH"}
    /\ \E k \in 1..Len(last.log) :
           ~last.log[k].ok /\ last.log[k].reg \in OwnRegs(last.id)

\* C30: for the controls whose value is pushed with more than one register
\* write (HDR data-selection threshold: EXP_TH_H then EXP_TH_L;
\* gradation-compression threshold: CCMP1_EXP then CCMP2_EXP) the failure
\* of any one of the writes makes the control-set operation return an
\* error, also when the first write fails and the second succeeds.
C30_EveryWriteFailureReported ==
    TwoWriteCtrlFailed => last.ret # 0

\* The step is a write to the HCG control, or a stream enable (whose bulk
\* control setup replays the HCG control), with HDR enabled before and
\* after
HcgUnderHdrStep ==
    /\ dev[1].attached /\ dev[1].clear_HDR /\ dev'[1].clear_HDR
    /\ \/ last'.op = "s_ctrl" /\ last'.id = "HGC_GAIN"
       \/ last'.op = "s_stream" /\ last'.v = TRUE

\* The positions in the log of the step that hold writes of control
\* handlers: every write of a control write; in a stream enable the
\* writes after the register tables (the common table sets FDG_SEL0 to 0
\* itself)
HandlerWrites ==
    {k \in 1..Len(last'.log) :
         last'.op = "s_stream" => k > Len(TablePrefix(dev[1]))}

\* C31: while HDR is enabled HCG is disabled entirely: a write to the HCG
\* control changes neither the hcg_enabled flag nor the gain range and
\* issues no write to the FDG_SEL0 register, whether the device is powered
\* or not, and also when the control is replayed by the bulk control setup
\* at stream enable.
C31_HcgDisabledUnderHdr ==
    [][HcgUnderHdrStep =>
         /\ dev'[1].hgc = dev[1].hgc
         /\ dev'[1].ctrl["ANALOGUE_GAIN"].minimum
                = dev[1].ctrl["ANALOGUE_GAIN"].minimum
         /\ dev'[1].ctrl["ANALOGUE_GAIN"].maximum
                = dev[1].ctrl["ANALOGUE_GAIN"].maximum
         /\ \A k \in HandlerWrites : last'.log[k].reg # "FDG_SEL0"]_vars

\* A stream enable with HDR on that replayed an HCG control holding 1 and
\* left HCG off
C31_Witness ==
    /\ dev[1].attached /\ dev[1].clear_HDR /\ dev[1].streaming
    /\ last.op = "s_stream" /\ last.v = TRUE /\ last.ret = 0
    /\ dev[1].ctrl["HGC_GAIN"].cur = 1 /\ ~dev[1].hgc
    /\ dev[1].ctrl["ANALOGUE_GAIN"].minimum = 0
    /\ \E k \in 1..Len(last.log) : last.log[k].reg = "ANALOG_GAIN"

\* The SHR value that matches the live vmax and the exposure control of
\* device record d
ShrOf(d) == ClearBit0(d.VMAX - d.ctrl["EXPOSURE"].cur)

\* The step is a control write that completed on the streaming device
StreamingCtrlWriteStep ==
    /\ dev[1].attached /\ dev[1].streaming /\ dev'[1].streaming
    /\ last'.op = "s_ctrl" /\ last'.powered /\ last'.ret = 0

\* C32: while the device is streaming, after every completed control write
\* the value last written to the SHR register equals (live vmax - current
\* exposure) & ~1: a control write that changes that quantity, in
\* particular a VBLANK write that changes vmax and leaves the exposure
\* value inside its new range, writes SHR again, and the last SHR value it
\* writes is the new one.
C32_ShrFollowsVmaxAndExposure ==
    [][(StreamingCtrlWriteStep /\ ShrOf(dev'[1]) # ShrOf(dev[1])) =>
         /\ LastIndex(last'.log, "SHR") > 0
         /\ LastWritten(last'.log, "SHR") = ShrOf(dev'[1])]_vars

\* C33: in every reachable state after attach the hdr_enabled flag of the
\* driver equals the current value of the WIDE_DYNAMIC_RANGE control, also
\* when the device was attached with the clearHDR-mode configuration flag
\* set; so a stream enable, which replays the control, never changes
\* hdr_enabled.
C33_HdrFlagMatchesControl ==
    dev[1].attached =>
        BoolVal(dev[1].clear_HDR) = dev[1].ctrl["WIDE_DYNAMIC_RANGE"].cur

\* C34: in every reachable state the active format code is one of the
\* codes enumerated for the current (mono, hdr_enabled) class, so a 16-bit
\* code is active only while HDR is enabled: after a 16-bit format was
\* selected under HDR and HDR is then switched off, the active code is a
\* 12-bit code.
C34_ActiveCodeInClass ==
    (dev[1].attached /\ ~dev[1].oops) =>
        /\ dev[1].fmt_code \in OfferedCodes(dev[1])
        /\ dev[1].fmt_code \in Codes16 => dev[1].clear_HDR

\* C35: while streaming is true the active mode and the active format
\* code do not change: a set_pad_format(ACTIVE) issued while streaming
\* does not replace the mode whose register block was programmed at stream
\* enable and does not reset the live hmax/vmax.
C35_FormatFixedWhileStreaming ==
    [][(dev[1].attached /\ dev[1].streaming /\ dev'[1].streaming) =>
         /\ dev'[1].mode = dev[1].mode
         /\ dev'[1].fmt_code = dev[1].fmt_code
         /\ last'.op = "set_fmt" =>
                /\ dev'[1].HMAX = dev[1].HMAX
                /\ dev'[1].VMAX = dev[1].VMAX]_vars

\* C36: power references are balanced over every sequence of operations:
\* outside a call in progress the driver holds exactly one power reference
\* if streaming is true and none if it is false, whatever set_stream calls
\* (repeated, failed), control writes and system resumes (with a failed
\* restart of streaming) came before.
C36_PowerReferencesBalanced ==
    dev[1].attached => dev[1].usage_count = BoolVal(dev[1].streaming)

\* C37: no operation returns while holding the device lock and none
\* re-acquires it while holding it: set_stream, set_pad_format,
\* get_pad_format, get_selection and the control writes (with their nested
\* range updates and the bulk control setup at stream enable) leave the
\* lock released, so that concurrent callers never deadlock and every
\* caller that waits for the lock eventually proceeds: between calls the
\* device mutex is unlocked.
C37_LockReleasedBetweenCalls ==
    dev[1].attached => dev[1].mutex = "unlocked"

\* C38: for every black-level (BRIGHTNESS) value b in 0..0xFFFF written
\* while the device is powered, the value programmed into the black-level
\* register is min(b, 4095); no value is cut to fewer bits than that.
C38_BlackLevelClampedTo4095 ==
    (/\ dev[1].attached /\ last.op = "s_ctrl" /\ last.id = "BRIGHTNESS"
     /\ last.powered /\ last.log # <<>>)
    => /\ last.log[1].reg = "BLKLEVEL"
       /\ last.log[1].val
              = (IF dev[1].ctrl["BRIGHTNESS"].val > 4095 THEN 4095
                 ELSE dev[1].ctrl["BRIGHTNESS"].val)

\* The largest live vmax the step passes through: before, after, or as
\* written to the VMAX register on the way
VmaxDuringStep ==
    LET S == {dev[1].VMAX, dev'[1].VMAX}
             \cup {last'.log[k].val :
                      k \in {j \in 1..Len(last'.log) :
                                last'.log[j].reg = "VMAX"}}
    IN  CHOOSE v \in S : \A w \in S : w <= v

C40_HblankHmaxInRange ==
    \A i \in Instances :
        (/\ last.op = "s_ctrl" /\ last.id = "HBLANK" /\ last.i = i
         /\ last.powered /\ last.ret = 0 /\ last.log # <<>>)
        => LET d    == dev[i]
               mode == supported_modes[d.mode]
               hmax == HmaxOf(mode, d.ctrl["HBLANK"].cur)
           IN  /\ d.ctrl["HBLANK"].cur \in 0..d.ctrl["HBLANK"].maximum
               /\ hmax >= mode.min_HMAX
               /\ hmax <= IMX585_HMAX_MAX
               /\ d.HMAX = hmax
               /\ d.ctrl["HBLANK"].cur = 0 => hmax = mode.min_HMAX

====
